---- MODULE Spec2Model ----
(***************************************************************************)
(* A model of the IPAM engine's Space router (engine/app/routers/space.py): *)
(* the per-tenant Space documents, the request handlers that read, check    *)
(* and rewrite them, and the optimistic-concurrency envelope around them.   *)
(*                                                                         *)
(* Addresses are AddrBits wide instead of 32; a CIDR string "a.b.c.d/n" is  *)
(* the record [ip |-> address as written, len |-> n], so a string whose     *)
(* host bits are set is a different value from its canonical form.          *)
(***************************************************************************)
EXTENDS Integers, Sequences, FiniteSets, TLC

(***************************************************************************)
(* Bounds of the model.                                                    *)
(***************************************************************************)
AddrBits == 3
MaxBlocks == 2
MaxResv == 2
MaxExternals == 2
MaxSubnets == 2
MaxEndpoints == 2
MaxSpaces == 2

Null == "null"

(***************************************************************************)
(* netaddr: IPNetwork, IPSet.                                               *)
(***************************************************************************)
Addrs == 0 .. (2^AddrBits - 1)

BadCidr == [ip |-> -1, len |-> -1]

\* A request that names no CIDR: req.cidr is None.
NoneCidr == [ip |-> -2, len |-> -2]

\* IPNetwork(x) raises for a string that is no address/prefix.
Parses(x) == x # BadCidr

\* IPNetwork(x).size
Size(x) == 2^(AddrBits - x.len)

\* IPNetwork(x).first, .last
First(x) == x.ip - (x.ip % Size(x))
Last(x) == First(x) + Size(x) - 1

\* IPNetwork(x).cidr: the host bits cleared.
Cidr(x) == [ip |-> First(x), len |-> x.len]

\* str(IPNetwork(x).cidr) == x
IsCanonical(x) == Cidr(x) = x

\* IPSet([x]): the addresses of the network x is in.
Range(x) == First(x) .. Last(x)

\* IPSet(list of CIDR strings)
IPSet(seq) == UNION {Range(seq[i]) : i \in DOMAIN seq}

\* IPNetwork(a) in IPNetwork(b)
NetIn(a, b) == a.len >= b.len /\ First(a) - (First(a) % Size(b)) = First(b)

\* a ^ b on IPSets
Xor(A, B) == (A \ B) \cup (B \ A)

AllCidrs == {[ip |-> a, len |-> l] : a \in Addrs, l \in 0 .. AddrBits}
CanonCidrs == {c \in AllCidrs : IsCanonical(c)}

Parent(c) == Cidr([ip |-> c.ip, len |-> c.len - 1])

\* The CIDRs an IPSet holds after compaction: the maximal aligned blocks.
MaximalCidrs(S) ==
    {c \in CanonCidrs : Range(c) \subseteq S
                        /\ (c.len = 0 \/ ~(Range(Parent(c)) \subseteq S))}

RECURSIVE SortByFirst(_)
SortByFirst(S) ==
    IF S = {} THEN <<>>
    ELSE LET m == CHOOSE c \in S : \A d \in S : First(c) <= First(d)
         IN <<m>> \o SortByFirst(S \ {m})

\* IPSet.iter_cidrs(): the compacted CIDRs in ascending order.
iter_cidrs(S) == SortByFirst(MaximalCidrs(S))

\* list(net.subnet(size)): empty when size is shorter than net's prefix.
subnet(net, size) ==
    IF size < net.len THEN <<>>
    ELSE [i \in 1 .. 2^(size - net.len) |->
             [ip |-> First(net) + (i - 1) * 2^(AddrBits - size), len |-> size]]

\* IPNetwork.iter_hosts(): network and broadcast excluded from 4 addresses on.
iter_hosts(net) ==
    IF Size(net) >= 4 THEN (First(net) + 1) .. (Last(net) - 1) ELSE Range(net)

(***************************************************************************)
(* Python list helpers.                                                    *)
(***************************************************************************)
Reverse(s) == [i \in 1 .. Len(s) |-> s[Len(s) + 1 - i]]

\* next((i for i, x in enumerate(s) if P(x)), None), 0 for None
FirstIdx(hits) ==
    IF \E i \in DOMAIN hits : hits[i]
    THEN CHOOSE i \in DOMAIN hits : hits[i] /\ \A j \in 1 .. (i - 1) : ~hits[j]
    ELSE 0

\* del s[i]
DelAt(s, i) == [j \in 1 .. (Len(s) - 1) |-> IF j < i THEN s[j] ELSE s[j + 1]]

RECURSIVE Flatten(_)
Flatten(ss) == IF ss = <<>> THEN <<>> ELSE Head(ss) \o Flatten(Tail(ss))

SeqSet(s) == {s[i] : i \in DOMAIN s}

Max(S) == IF S = {} THEN 0 ELSE CHOOSE m \in S : \A n \in S : n <= m

(***************************************************************************)
(* Names: str.lower() and the name regexes.                                *)
(***************************************************************************)
UpperNames ==
    [x \in {"CORP", "BLK1", "BLK2", "EXT1", "SUB1", "EP1", "VNETA"} |->
        CASE x = "CORP" -> "corp" [] x = "BLK1" -> "blk1" [] x = "BLK2" -> "blk2"
          [] x = "EXT1" -> "ext1" [] x = "SUB1" -> "sub1" [] x = "EP1" -> "ep1"
          [] x = "VNETA" -> "vneta"]

\* s.lower()
Lower(s) == IF s \in DOMAIN UpperNames THEN UpperNames[s] ELSE s

\* re.match(SPACE_NAME_REGEX, s): "-bad" stands for the names the regex refuses.
NameOk(s) == s # "-bad"

(***************************************************************************)
(* The network inventory, get_network(): id and prefixes of each vnet.     *)
(***************************************************************************)
Pfx(a, l) == [ip |-> a, len |-> l]

\* The first half of the address space, its second half and its whole.
LowHalf == Pfx(0, 1)
HighHalf == Pfx(2^(AddrBits - 1), 1)
Whole == Pfx(0, 0)
LowQuarter == Pfx(0, 2)
Quarter2 == Pfx(2^(AddrBits - 2), 2)
Quarter3 == Pfx(2^(AddrBits - 1), 2)
Quarter4 == Pfx(2^(AddrBits - 1) + 2^(AddrBits - 2), 2)

NetList ==
    << [id |-> "vneta", prefixes |-> <<LowQuarter>>],
       [id |-> "vnetb", prefixes |-> <<Quarter2, Quarter3>>],
       [id |-> "vnetc", prefixes |-> <<Quarter4>>] >>

(***************************************************************************)
(* The document store: a list of Space documents.                          *)
(***************************************************************************)
\* cosmos_query(... WHERE c.type = 'space' AND LOWER(c.name) = LOWER(space))
SpaceQuery(st, space) == SelectSeq(st, LAMBDA d : Lower(d.name) = Lower(space))

NoWrite == [kind |-> "none"]
ReplaceW(old, new) == [kind |-> "replace", old |-> old, new |-> new]
UpsertW(doc) == [kind |-> "upsert", doc |-> doc]
DeleteW(doc) == [kind |-> "delete", doc |-> doc]

\* raise HTTPException(status_code = code, detail = detail): nothing is written.
Raise(code, detail) == [code |-> code, write |-> NoWrite, detail |-> detail, out |-> Null]
\* An HTTPException whose detail no property here reads.
Err(code) == Raise(code, "")
\* An exception no handler catches: the framework answers 500.
Unhandled == Raise(500, "Internal Server Error")
\* The handler returns out after the store call w.
Return(code, w, out) == [code |-> code, write |-> w, detail |-> "", out |-> out]
\* The handler returns after the store call w; no property here reads the body.
Done(code, w) == Return(code, w, Null)

\* What a store call does to the list of documents.
Apply(st, w) ==
    CASE w.kind = "none" -> st
      [] w.kind = "replace" -> [i \in DOMAIN st |-> IF st[i].id = w.old.id THEN w.new ELSE st[i]]
      [] w.kind = "upsert" ->
            IF \E i \in DOMAIN st : st[i].id = w.doc.id
            THEN [i \in DOMAIN st |-> IF st[i].id = w.doc.id THEN w.doc ELSE st[i]]
            ELSE Append(st, w.doc)
      [] w.kind = "delete" -> SelectSeq(st, LAMBDA d : d.id # w.doc.id)

\* target_block = next((x for x in blocks if x['name'].lower() == block.lower()), None)
FindByName(seq, name) == FirstIdx([i \in DOMAIN seq |-> Lower(seq[i].name) = Lower(name)])

\* next((i for i, item in enumerate(seq) if item['name'] == name), None)
IndexByExactName(seq, name) == FirstIdx([i \in DOMAIN seq |-> seq[i].name = name])

\* next((x for x in net_list if x['id'].lower() == id.lower()), None)
FindNet(id) == FirstIdx([i \in DOMAIN NetList |-> Lower(NetList[i].id) = Lower(id)])

\* next((i for i in net_list if i['id'] == id), None)
FindNetExact(id) == FirstIdx([i \in DOMAIN NetList |-> NetList[i].id = id])

\* filter(lambda x: IPNetwork(x) in IPNetwork(block['cidr']), net['prefixes'])
PrefixesIn(id, cidr) ==
    IF FindNet(id) = 0 THEN <<>>
    ELSE SelectSeq(NetList[FindNet(id)].prefixes, LAMBDA x : NetIn(x, cidr))

\* block_cidrs += target_net['prefixes']: every prefix, inside the block or not.
AllPrefixes(id) ==
    IF FindNetExact(id) = 0 THEN <<>> ELSE NetList[FindNetExact(id)].prefixes

\* not r['settledOn']: None, written 0 here, is the only falsy value a reservation holds.
Unsettled(resv) == SelectSeq(resv, LAMBDA r : r.settledOn = 0)

CidrsOf(seq) == [i \in DOMAIN seq |-> seq[i].cidr]

\* The in-block prefixes of the vnets attached to a block.
VnetCidrs(block) ==
    Flatten([i \in DOMAIN block.vnets |-> PrefixesIn(block.vnets[i].id, block.cidr)])

(***************************************************************************)
(* create_space                                                            *)
(***************************************************************************)
create_space(st, caller, req, newid) ==
    IF ~caller.admin THEN Err(403)
    ELSE IF ~NameOk(req.name) THEN Err(400)
    ELSE IF ~NameOk(req.desc) THEN Err(400)
    ELSE IF \E i \in DOMAIN st : Lower(st[i].name) = Lower(req.name) THEN Err(400)
    ELSE Done(201, UpsertW([id |-> newid, name |-> req.name, desc |-> req.desc,
                            blocks |-> <<>>]))

(***************************************************************************)
(* update_space and its patch gate                                         *)
(***************************************************************************)
valid_space_name_update(st, name, space_name) ==
    LET space_names == {Lower(st[i].name) : i \in {j \in DOMAIN st : Lower(st[j].name) # Lower(space_name)}}
    IN  /\ Lower(name) \notin space_names
        /\ NameOk(name)

\* The entry of allowed_ops an item matches: op and path equal.
SpaceAllowed(item) == item.op = "replace" /\ item.path \in {"/name", "/desc"}

SpaceItemValid(st, item, space_name) ==
    IF item.path = "/name" THEN valid_space_name_update(st, item.value, space_name)
    ELSE NameOk(item.value)

\* scrub_*_patch: the allow-listed items, or a 400 when one of them is invalid.
\* allowed[i] and valid[i] tell whether patch[i] is allow-listed and whether its
\* validator accepts it.
Scrub(patch, allowed, valid) ==
    LET kept == SelectSeq([i \in DOMAIN patch |->
                              [item |-> patch[i], allowed |-> allowed[i], valid |-> valid[i]]],
                          LAMBDA e : e.allowed)
    IN  IF \A i \in DOMAIN kept : kept[i].valid
        THEN [ok |-> TRUE, patch |-> [i \in DOMAIN kept |-> kept[i].item]]
        ELSE [ok |-> FALSE, patch |-> <<>>]

\* jsonpatch replace on a dict: the member named by the path gets the value.
ApplyItem(obj, item) ==
    CASE item.path = "/name" -> [obj EXCEPT !.name = item.value]
      [] item.path = "/desc" -> [obj EXCEPT !.desc = item.value]
      [] item.path = "/cidr" -> [obj EXCEPT !.cidr = item.value]
      [] item.path = "/ip" -> [obj EXCEPT !.ip = item.value]
      [] OTHER -> obj

RECURSIVE ApplyPatch(_, _)
ApplyPatch(obj, patch) ==
    IF patch = <<>> THEN obj ELSE ApplyPatch(ApplyItem(obj, Head(patch)), Tail(patch))

\* vst is the store as the validators' own queries see it.
update_space(st, vst, caller, space, updates) ==
    IF ~caller.admin THEN Err(403)
    ELSE IF SpaceQuery(st, space) = <<>> THEN Err(400)
    ELSE LET target_space == SpaceQuery(st, space)[1]
             scrubbed == Scrub(updates,
                               [i \in DOMAIN updates |-> SpaceAllowed(updates[i])],
                               [i \in DOMAIN updates |->
                                   SpaceAllowed(updates[i]) => SpaceItemValid(vst, updates[i], space)])
         IN  IF ~scrubbed.ok THEN Err(400)
             ELSE Done(200, ReplaceW(target_space, ApplyPatch(target_space, scrubbed.patch)))

(***************************************************************************)
(* delete_space                                                            *)
(***************************************************************************)
\* delete_space without the is_admin test.
delete_space_ungated(st, caller, space, force) ==
    IF SpaceQuery(st, space) = <<>> THEN Err(400)
    ELSE LET target_space == SpaceQuery(st, space)[1]
         IN  IF ~force /\ Len(target_space.blocks) > 0 THEN Err(400)
             ELSE Done(200, DeleteW(target_space))

delete_space(st, caller, space, force) ==
    IF ~caller.admin THEN Err(403)
    ELSE IF SpaceQuery(st, space) = <<>> THEN Err(400)
    ELSE LET target_space == SpaceQuery(st, space)[1]
         IN  IF ~force /\ Len(target_space.blocks) > 0 THEN Err(400)
             ELSE Done(200, DeleteW(target_space))

(***************************************************************************)
(* create_block                                                            *)
(***************************************************************************)
create_block(st, caller, space, block) ==
    IF ~caller.admin THEN Err(403)
    ELSE IF SpaceQuery(st, space) = <<>> THEN Err(400)
    ELSE LET target_space == SpaceQuery(st, space)[1]
             block_cidrs == IPSet(CidrsOf(target_space.blocks))
         IN  IF ~NameOk(block.name) THEN Err(400)
             ELSE IF ~Parses(block.cidr) THEN Err(400)
             ELSE IF ~IsCanonical(block.cidr) THEN Err(400)
             ELSE IF Range(block.cidr) \cap block_cidrs # {} THEN Err(400)
             ELSE Done(201, ReplaceW(target_space,
                     [target_space EXCEPT !.blocks =
                         Append(@, [name |-> block.name, cidr |-> block.cidr,
                                    vnets |-> <<>>, externals |-> <<>>, resv |-> <<>>])]))

(***************************************************************************)
(* update_block and its patch gate                                         *)
(***************************************************************************)
\* SELECT VALUE t FROM c join t IN c.blocks WHERE LOWER(c.name) = LOWER(space)
BlocksQuery(st, space) ==
    Flatten([i \in DOMAIN SpaceQuery(st, space) |-> SpaceQuery(st, space)[i].blocks])

valid_block_name_update(st, name, space_name, block_name) ==
    LET blocks == BlocksQuery(st, space_name)
        other_blocks == {Lower(blocks[i].name) :
                            i \in {j \in DOMAIN blocks : Lower(blocks[j].name) # Lower(block_name)}}
    IN  /\ Lower(name) \notin other_blocks
        /\ NameOk(name)

\* Lines 144-158: the CIDRs of the other blocks, and the children of this one.
\* A block is this one when its name equals the path's name as written.
BlockUpdateSpaceCidrs(blocks, block_name) ==
    CidrsOf(SelectSeq(blocks, LAMBDA b : b.name # block_name))

BlockUpdateChildCidrs(blocks, block_name) ==
    Flatten([i \in DOMAIN blocks |->
        IF blocks[i].name # block_name THEN <<>>
        ELSE Flatten([k \in DOMAIN blocks[i].vnets |-> AllPrefixes(blocks[i].vnets[k].id)])
             \o CidrsOf(blocks[i].externals)
             \o CidrsOf(Unsettled(blocks[i].resv))])

valid_block_cidr_update(st, cidr, space_name, block_name) ==
    LET blocks == BlocksQuery(st, space_name)
        t == FindByName(blocks, block_name)
        update_set == Range(cidr)
        space_set == IPSet(BlockUpdateSpaceCidrs(blocks, block_name))
        block_set == IPSet(BlockUpdateChildCidrs(blocks, block_name))
    IN  IF t # 0 /\ cidr = blocks[t].cidr THEN TRUE
        ELSE IF ~Parses(cidr) THEN FALSE
        ELSE IF t # 0 /\ ~IsCanonical(cidr) THEN FALSE
        ELSE IF space_set \cap update_set # {} THEN FALSE
        ELSE block_set \subseteq update_set

\* The block allow-list with the add entries let through as well.
BlockAllowedAdd(item) == item.op \in {"replace", "add"} /\ item.path \in {"/name", "/cidr"}

BlockAllowed(item) == item.op = "replace" /\ item.path \in {"/name", "/cidr"}

BlockItemValid(st, item, space_name, block_name) ==
    IF item.path = "/name" THEN valid_block_name_update(st, item.value, space_name, block_name)
    ELSE valid_block_cidr_update(st, item.value, space_name, block_name)

update_block(st, vst, caller, space, block, updates) ==
    IF ~caller.admin THEN Err(403)
    ELSE IF SpaceQuery(st, space) = <<>> THEN Err(400)
    ELSE LET target_space == SpaceQuery(st, space)[1]
             b == FindByName(target_space.blocks, block)
             scrubbed == Scrub(updates,
                               [i \in DOMAIN updates |-> BlockAllowed(updates[i])],
                               [i \in DOMAIN updates |->
                                   BlockAllowed(updates[i]) => BlockItemValid(vst, updates[i], space, block)])
         IN  IF b = 0 THEN Err(400)
             ELSE IF ~scrubbed.ok THEN Err(400)
             ELSE Done(200, ReplaceW(target_space,
                     [target_space EXCEPT !.blocks[b] = ApplyPatch(@, scrubbed.patch)]))

(***************************************************************************)
(* delete_block                                                            *)
(***************************************************************************)
delete_block(st, caller, space, block, force) ==
    IF ~caller.admin THEN Err(403)
    ELSE IF SpaceQuery(st, space) = <<>> THEN Err(400)
    ELSE LET target_space == SpaceQuery(st, space)[1]
             b == FindByName(target_space.blocks, block)
             index == IndexByExactName(target_space.blocks, block)
         IN  IF b = 0 THEN Err(400)
             ELSE IF ~force /\ (Len(target_space.blocks[b].vnets) > 0
                                \/ Len(target_space.blocks[b].resv) > 0) THEN Err(400)
             \* del target_space['blocks'][None] raises TypeError
             ELSE IF index = 0 THEN Err(500)
             ELSE Done(200, ReplaceW(target_space,
                     [target_space EXCEPT !.blocks = DelAt(@, index)]))

(***************************************************************************)
(* Block networks: create_block_net, update_block_vnets, delete_block_nets *)
(***************************************************************************)
\* next((x for x in target_net['prefixes'] if IPNetwork(x) in IPNetwork(cidr)), None)
TargetCidr(id, cidr) == PrefixesIn(id, cidr)

create_block_net(st, caller, space, block, vnet_id) ==
    IF ~caller.admin THEN Err(403)
    ELSE IF SpaceQuery(st, space) = <<>> THEN Err(400)
    ELSE LET target_space == SpaceQuery(st, space)[1]
             b == FindByName(target_space.blocks, block)
             target_block == target_space.blocks[b]
             block_net_cidrs == CidrsOf(Unsettled(target_block.resv))
                                \o CidrsOf(target_block.externals)
                                \o VnetCidrs(target_block)
         IN  IF b = 0 THEN Err(400)
             ELSE IF \E i \in DOMAIN target_block.vnets : target_block.vnets[i].id = vnet_id
                  THEN Err(400)
             ELSE IF FindNet(vnet_id) = 0 THEN Err(400)
             ELSE IF TargetCidr(vnet_id, target_block.cidr) = <<>> THEN Err(400)
             ELSE IF IPSet(block_net_cidrs)
                        \cap Range(TargetCidr(vnet_id, target_block.cidr)[1]) # {}
                  THEN Err(400)
             ELSE Done(201, ReplaceW(target_space,
                     [target_space EXCEPT !.blocks[b].vnets =
                         Append(@, [id |-> vnet_id, active |-> TRUE])]))

\* Lines 1608-1622: the first in-block prefix of each listed vnet, added to
\* net_ipset unless it overlaps what the earlier ones added.
RECURSIVE NetIpset(_, _)
NetIpset(vnets, cidr) ==
    IF vnets = <<>> THEN [set |-> {}, overlap |-> FALSE]
    ELSE LET rest == NetIpset(SubSeq(vnets, 1, Len(vnets) - 1), cidr)
             v == vnets[Len(vnets)]
         IN  IF FindNet(v) = 0 \/ TargetCidr(v, cidr) = <<>> THEN rest
             ELSE IF rest.set \cap Range(TargetCidr(v, cidr)[1]) = {}
                  THEN [rest EXCEPT !.set = @ \cup Range(TargetCidr(v, cidr)[1])]
             ELSE [rest EXCEPT !.overlap = TRUE]

update_block_vnets(st, caller, space, block, vnets) ==
    IF ~caller.admin THEN Err(403)
    ELSE IF SpaceQuery(st, space) = <<>> THEN Err(400)
    ELSE LET target_space == SpaceQuery(st, space)[1]
             b == FindByName(target_space.blocks, block)
             target_block == target_space.blocks[b]
             net == NetIpset(vnets, target_block.cidr)
             resv_cidrs == IPSet(CidrsOf(Unsettled(target_block.resv)))
             ext_cidrs == IPSet(CidrsOf(target_block.externals))
         IN  IF b = 0 THEN Err(400)
             ELSE IF Cardinality(SeqSet(vnets)) # Len(vnets) THEN Err(400)
             ELSE IF \E i \in DOMAIN vnets : FindNet(vnets[i]) = 0 THEN Err(400)
             ELSE IF net.overlap THEN Err(400)
             ELSE IF net.set \cap resv_cidrs # {} THEN Err(400)
             ELSE IF net.set \cap ext_cidrs # {} THEN Err(400)
             ELSE IF \E i \in DOMAIN vnets : TargetCidr(vnets[i], target_block.cidr) = <<>>
                  THEN Err(400)
             ELSE Done(200, ReplaceW(target_space,
                     [target_space EXCEPT !.blocks[b].vnets =
                         [i \in DOMAIN vnets |-> [id |-> vnets[i], active |-> TRUE]]]))

delete_block_nets(st, caller, space, block, req) ==
    IF ~caller.admin THEN Err(403)
    ELSE IF SpaceQuery(st, space) = <<>> THEN Err(400)
    ELSE LET target_space == SpaceQuery(st, space)[1]
             b == FindByName(target_space.blocks, block)
             target_block == target_space.blocks[b]
         IN  IF b = 0 THEN Err(400)
             ELSE IF Cardinality(SeqSet(req)) # Len(req) THEN Err(400)
             ELSE IF \E i \in DOMAIN req :
                        \A k \in DOMAIN target_block.vnets : target_block.vnets[k].id # req[i]
                  THEN Err(400)
             ELSE Done(200, ReplaceW(target_space,
                     [target_space EXCEPT !.blocks[b].vnets =
                         SelectSeq(@, LAMBDA v : v.id \notin SeqSet(req))]))

(***************************************************************************)
(* The allocator of create_block_reservation,                              *)
(* create_multi_block_reservation, create_external_network and             *)
(* create_external_subnet.                                                 *)
(***************************************************************************)
\* The free set with the settled reservations still taken out of it.
AvailableSetSettled(block) ==
    Xor(Range(block.cidr),
        IPSet(VnetCidrs(block) \o CidrsOf(block.resv) \o CidrsOf(block.externals)))

\* block_set ^ reserved_set
AvailableSet(block) ==
    Xor(Range(block.cidr),
        IPSet(VnetCidrs(block) \o CidrsOf(Unsettled(block.resv)) \o CidrsOf(block.externals)))

\* IPNetwork(x) in ipset: some CIDR of the set is x's network or a supernet of it.
NetInSet(x, S) == \E c \in MaximalCidrs(S) : NetIn(x, c)

\* The free prefixes from the lowest up, whatever the direction asked for.
SlicedForward(S, reverse) == iter_cidrs(S)

\* available_set.iter_cidrs()[available_slicer]
Sliced(S, reverse) == IF reverse THEN Reverse(iter_cidrs(S)) ELSE iter_cidrs(S)

AvailableBlockFirstFit(S, size, reverse, smallest, has_default) ==
    LET fits == SelectSeq(Sliced(S, reverse), LAMBDA x : x.len <= size)
    IN  IF fits = <<>> THEN [raised |-> FALSE, net |-> <<>>]
        ELSE [raised |-> FALSE, net |-> <<fits[1]>>]

\* Lines 3028-3033: the free CIDR to carve from, <<>> for None. A max() of an
\* empty list raises ValueError unless a default is given.
AvailableBlock(S, size, reverse, smallest, has_default) ==
    LET fits == SelectSeq(Sliced(S, reverse), LAMBDA x : x.len <= size)
        min_mask == Max({fits[i].len : i \in DOMAIN fits})
    IN  IF fits = <<>> THEN
            (IF smallest /\ ~has_default THEN [raised |-> TRUE, net |-> <<>>]
             ELSE [raised |-> FALSE, net |-> <<>>])
        ELSE IF smallest
             THEN [raised |-> FALSE,
                   net |-> <<SelectSeq(fits, LAMBDA x : x.len = min_mask)[1]>>]
        ELSE [raised |-> FALSE, net |-> <<fits[1]>>]

NextCidrFromBottom(net, size, reverse) == subnet(net, size)[1]

\* list(available_block.subnet(size))[next_selector]
NextCidr(net, size, reverse) ==
    IF reverse THEN subnet(net, size)[Len(subnet(net, size))] ELSE subnet(net, size)[1]

NewResv(id, cidr, user) ==
    [id |-> id, cidr |-> cidr, createdBy |-> user,
     settledOn |-> 0, settledBy |-> Null, status |-> "wait"]

(***************************************************************************)
(* create_block_reservation                                                *)
(***************************************************************************)
\* req: [cidr, size, reverse_search, smallest_cidr]; cidr is NoneCidr for a request by size.
create_block_reservation(st, caller, space, block, req, newid) ==
    IF SpaceQuery(st, space) = <<>> THEN Err(400)
    ELSE LET target_space == SpaceQuery(st, space)[1]
             b == FindByName(target_space.blocks, block)
             target_block == target_space.blocks[b]
             available_set == AvailableSet(target_block)
             found == AvailableBlock(available_set, req.size, req.reverse_search,
                                     req.smallest_cidr, FALSE)
             commit(next_cidr) ==
                 Return(201, ReplaceW(target_space,
                            [target_space EXCEPT !.blocks[b].resv =
                                Append(@, NewResv(newid, next_cidr, caller.user))]),
                        [resv |-> NewResv(newid, next_cidr, caller.user),
                         space |-> target_space.name, block |-> target_block.name])
         IN  IF b = 0 THEN Err(400)
             ELSE IF req.cidr # NoneCidr THEN
                    (IF ~Parses(req.cidr) THEN Raise(400, "Invalid network CIDR format.")
                     ELSE IF ~NetInSet(req.cidr, available_set)
                          THEN Raise(409, "Requested CIDR overlaps existing network(s).")
                     ELSE commit(req.cidr))
             ELSE IF found.raised THEN Unhandled
             ELSE IF found.net = <<>>
                  THEN Raise(500, "Network of requested size unavailable in target block.")
             ELSE commit(NextCidr(found.net[1], req.size, req.reverse_search))

(***************************************************************************)
(* create_multi_block_reservation                                          *)
(***************************************************************************)
RECURSIVE SearchBlocksLast(_, _, _)
SearchBlocksLast(blocks, names, req) ==
    IF names = <<>> THEN [net |-> <<>>, name |-> Null, b |-> 0]
    ELSE LET b == FindByName(blocks, Head(names))
             found == AvailableBlock(AvailableSet(blocks[b]), req.size, req.reverse_search,
                                     req.smallest_cidr, TRUE)
             later == SearchBlocksLast(blocks, Tail(names), req)
         IN  IF later.net # <<>> THEN later
             ELSE IF found.net # <<>> THEN [net |-> found.net, name |-> Head(names), b |-> b]
             ELSE later

\* The loop of lines 931-959 over req.blocks: a block is looked at only while
\* available_block is None, so the loop's target_block is the block it was found in.
RECURSIVE SearchBlocks(_, _, _)
SearchBlocks(blocks, names, req) ==
    IF names = <<>> THEN [net |-> <<>>, name |-> Null, b |-> 0]
    ELSE LET b == FindByName(blocks, Head(names))
             found == AvailableBlock(AvailableSet(blocks[b]), req.size, req.reverse_search,
                                     req.smallest_cidr, TRUE)
         IN  IF found.net # <<>> THEN [net |-> found.net, name |-> Head(names), b |-> b]
             ELSE SearchBlocks(blocks, Tail(names), req)

\* req: [blocks, size, reverse_search, smallest_cidr]
create_multi_block_reservation(st, caller, space, req, newid) ==
    IF SpaceQuery(st, space) = <<>> THEN Err(400)
    ELSE LET target_space == SpaceQuery(st, space)[1]
             space_blocks == {target_space.blocks[i].name : i \in DOMAIN target_space.blocks}
             found == SearchBlocks(target_space.blocks, req.blocks, req)
             next_cidr == NextCidr(found.net[1], req.size, req.reverse_search)
         IN  IF SeqSet(req.blocks) \ space_blocks # {} THEN Err(400)
             ELSE IF found.net = <<>>
                  THEN Raise(500, "Network of requested size unavailable in target block(s).")
             ELSE Return(201, ReplaceW(target_space,
                            [target_space EXCEPT !.blocks[found.b].resv =
                                Append(@, NewResv(newid, next_cidr, caller.user))]),
                         [resv |-> NewResv(newid, next_cidr, caller.user),
                          space |-> target_space.name, block |-> found.name])

(***************************************************************************)
(* delete_block_reservations: the list form and the single form            *)
(***************************************************************************)
SettleUnstamped(r, user, now) ==
    [r EXCEPT !.settledBy = user, !.status = "cancelledByUser"]

Settle(r, user, now) ==
    [r EXCEPT !.settledOn = now, !.settledBy = user, !.status = "cancelledByUser"]

\* The list form without the not_owned test.
delete_any_reservations(st, caller, space, block, req, now) ==
    IF SpaceQuery(st, space) = <<>> THEN Err(400)
    ELSE LET target_space == SpaceQuery(st, space)[1]
             b == FindByName(target_space.blocks, block)
             resv == target_space.blocks[b].resv
         IN  IF b = 0 THEN Err(400)
             ELSE IF Cardinality(SeqSet(req)) # Len(req) THEN Err(400)
             ELSE IF \E i \in DOMAIN req : \A k \in DOMAIN resv : resv[k].id # req[i]
                  THEN Err(400)
             ELSE Done(204, ReplaceW(target_space,
                     [target_space EXCEPT !.blocks[b].resv =
                         [k \in DOMAIN resv |->
                             IF resv[k].settledOn = 0 /\ resv[k].id \in SeqSet(req)
                                /\ (caller.admin \/ resv[k].createdBy = caller.user)
                             THEN Settle(resv[k], caller.user, now) ELSE resv[k]]]))

delete_block_reservations(st, caller, space, block, req, now) ==
    IF SpaceQuery(st, space) = <<>> THEN Err(400)
    ELSE LET target_space == SpaceQuery(st, space)[1]
             b == FindByName(target_space.blocks, block)
             resv == target_space.blocks[b].resv
             not_owned == SelectSeq(resv, LAMBDA x : x.id \in SeqSet(req)
                                                     /\ x.createdBy # caller.user)
         IN  IF b = 0 THEN Err(400)
             ELSE IF Cardinality(SeqSet(req)) # Len(req) THEN Err(400)
             ELSE IF \E i \in DOMAIN req : \A k \in DOMAIN resv : resv[k].id # req[i]
                  THEN Err(400)
             ELSE IF ~caller.admin /\ not_owned # <<>> THEN Err(403)
             ELSE Done(204, ReplaceW(target_space,
                     [target_space EXCEPT !.blocks[b].resv =
                         [k \in DOMAIN resv |->
                             IF resv[k].settledOn = 0 /\ resv[k].id \in SeqSet(req)
                             THEN Settle(resv[k], caller.user, now) ELSE resv[k]]]))

\* The single form without the settledOn test.
delete_settled_reservation(st, caller, space, block, reservation, now) ==
    IF SpaceQuery(st, space) = <<>> THEN Err(400)
    ELSE LET target_space == SpaceQuery(st, space)[1]
             b == FindByName(target_space.blocks, block)
             resv == target_space.blocks[b].resv
             k == FirstIdx([i \in DOMAIN resv |-> resv[i].id = reservation])
         IN  IF b = 0 THEN Err(400)
             ELSE IF k = 0 THEN Err(400)
             ELSE IF ~caller.admin /\ resv[k].createdBy # caller.user THEN Err(403)
             ELSE Done(204, ReplaceW(target_space,
                     [target_space EXCEPT !.blocks[b].resv[k] =
                         Settle(@, caller.user, now)]))

delete_block_reservation(st, caller, space, block, reservation, now) ==
    IF SpaceQuery(st, space) = <<>> THEN Err(400)
    ELSE LET target_space == SpaceQuery(st, space)[1]
             b == FindByName(target_space.blocks, block)
             resv == target_space.blocks[b].resv
             k == FirstIdx([i \in DOMAIN resv |-> resv[i].id = reservation])
         IN  IF b = 0 THEN Err(400)
             ELSE IF k = 0 THEN Err(400)
             ELSE IF ~caller.admin /\ resv[k].createdBy # caller.user THEN Err(403)
             ELSE IF resv[k].settledOn # 0 THEN Done(204, NoWrite)
             ELSE Done(204, ReplaceW(target_space,
                     [target_space EXCEPT !.blocks[b].resv[k] =
                         Settle(@, caller.user, now)]))

(***************************************************************************)
(* The read handlers that return reservations                              *)
(***************************************************************************)
RECURSIVE SumSizes(_)
SumSizes(cidrs) == IF cidrs = <<>> THEN 0 ELSE Size(Head(cidrs)) + SumSizes(Tail(cidrs))

AnyResv(resv, caller) == resv

\* if not is_admin: list(filter(lambda x: x['createdBy'] == user_name, resv))
OwnResv(resv, caller) ==
    IF caller.admin THEN resv ELSE SelectSeq(resv, LAMBDA x : x.createdBy = caller.user)

\* expand: every vnet reference replaced by its inventory object, the
\* references the inventory does not hold dropped; with utilization the
\* object gets the size of its in-block prefixes.
ExpandNets(block, expand, utilization) ==
    IF ~expand THEN block.vnets
    ELSE LET found == SelectSeq(block.vnets, LAMBDA v : FindNetExact(v.id) # 0)
         IN  [i \in DOMAIN found |->
                LET net == NetList[FindNetExact(found[i].id)]
                    inblock == SelectSeq(net.prefixes, LAMBDA x : NetIn(x, block.cidr))
                IN  IF ~utilization THEN net
                    ELSE IF inblock = <<>> THEN [size |-> 0] @@ net
                    ELSE [size |-> SumSizes(inblock), used |-> 0] @@ net]

\* block['used']: the in-block prefixes of the block's vnets and its externals.
UsedBy(block) ==
    SumSizes(Flatten([i \in DOMAIN block.vnets |->
                        SelectSeq(AllPrefixes(block.vnets[i].id),
                                  LAMBDA x : NetIn(x, block.cidr))])
             \o CidrsOf(block.externals))

\* A block as the space and block GETs hand it to the response.
BlockView(block, caller, expand, utilization) ==
    LET shown == [block EXCEPT !.vnets = ExpandNets(block, expand, utilization),
                               !.resv = OwnResv(block.resv, caller)]
    IN  IF utilization
        THEN [size |-> Size(block.cidr), used |-> UsedBy(block)] @@ shown
        ELSE shown

SpaceView(space, caller, expand, utilization) ==
    LET shown == [space EXCEPT !.blocks =
                     [b \in DOMAIN space.blocks |->
                         BlockView(space.blocks[b], caller, expand, utilization)]]
    IN  IF utilization
        THEN [size |-> SumSizes([b \in DOMAIN space.blocks |-> space.blocks[b].cidr]),
              used |-> SumSizes(Flatten([b \in DOMAIN space.blocks |->
                          Flatten([i \in DOMAIN space.blocks[b].vnets |->
                              SelectSeq(AllPrefixes(space.blocks[b].vnets[i].id),
                                        LAMBDA x : NetIn(x, space.blocks[b].cidr))])
                          \o CidrsOf(space.blocks[b].externals)]))] @@ shown
        ELSE shown

get_spaces(st, caller, expand, utilization) ==
    IF expand /\ ~caller.admin
    THEN Raise(403, "Expand parameter can only be used by admins.")
    ELSE Return(200, NoWrite, [i \in DOMAIN st |-> SpaceView(st[i], caller, expand, utilization)])

\* With utilization, line 728 adds the size of an external to space['used'],
\* space being the path's string: a TypeError.
get_space(st, caller, space, expand, utilization) ==
    IF expand /\ ~caller.admin
    THEN Raise(403, "Expand parameter can only be used by admins.")
    ELSE IF SpaceQuery(st, space) = <<>> THEN Raise(400, "Invalid space name.")
    ELSE LET target_space == SpaceQuery(st, space)[1]
         IN  IF utilization /\ \E b \in DOMAIN target_space.blocks :
                                  target_space.blocks[b].externals # <<>>
             THEN Unhandled
             ELSE Return(200, NoWrite, SpaceView(target_space, caller, expand, utilization))

get_blocks(st, caller, space, expand, utilization) ==
    IF expand /\ ~caller.admin
    THEN Raise(403, "Expand parameter can only be used by admins.")
    ELSE IF SpaceQuery(st, space) = <<>> THEN Raise(400, "Invalid space name.")
    ELSE LET target_space == SpaceQuery(st, space)[1]
         IN  Return(200, NoWrite,
                    [b \in DOMAIN target_space.blocks |->
                        BlockView(target_space.blocks[b], caller, expand, utilization)])

get_block(st, caller, space, block, expand, utilization) ==
    IF expand /\ ~caller.admin
    THEN Raise(403, "Expand parameter can only be used by admins.")
    ELSE IF SpaceQuery(st, space) = <<>> THEN Raise(400, "Invalid space name.")
    ELSE LET target_space == SpaceQuery(st, space)[1]
             b == FindByName(target_space.blocks, block)
         IN  IF b = 0 THEN Raise(400, "Invalid block name.")
             ELSE Return(200, NoWrite,
                         BlockView(target_space.blocks[b], caller, expand, utilization))

\* Lines 1393-1403: the inventory networks with a prefix inside the block that
\* overlaps no unsettled reservation and no external, cut down to those prefixes.
AvailableVnets(block) ==
    LET excluded_cidrs == IPSet(CidrsOf(Unsettled(block.resv)))
                          \cup IPSet(CidrsOf(block.externals))
        valid(net) == SelectSeq(net.prefixes,
                        LAMBDA x : NetIn(x, block.cidr) /\ Range(x) \cap excluded_cidrs = {})
    IN  SelectSeq([i \in DOMAIN NetList |-> [NetList[i] EXCEPT !.prefixes = valid(NetList[i])]],
                  LAMBDA net : net.prefixes # <<>>)

\* Lines 1409-1412: the ids attached to the blocks whose space name differs
\* from the path's space and whose own name differs from the path's block.
AssignedElsewhere(st, space, block) ==
    Flatten([s \in DOMAIN st |->
        Flatten([b \in DOMAIN st[s].blocks |->
            IF st[s].name # space /\ st[s].blocks[b].name # block
            THEN [v \in DOMAIN st[s].blocks[b].vnets |-> st[s].blocks[b].vnets[v].id]
            ELSE <<>>])])

\* Lines 1413-1416: net_index is the 0-based position of the id in the list;
\* "if net_index" is false for None and for position 0.
RECURSIVE DropAssigned(_, _)
DropAssigned(available_vnets, ids) ==
    IF ids = <<>> THEN available_vnets
    ELSE LET net_index == FirstIdx([i \in DOMAIN available_vnets |->
                                      available_vnets[i].id = ids[1]])
         IN  DropAssigned(IF net_index > 1 THEN DelAt(available_vnets, net_index)
                          ELSE available_vnets,
                          Tail(ids))

available_block_nets(st, caller, space, block, expand) ==
    LET s == FirstIdx([i \in DOMAIN st |-> Lower(st[i].name) = Lower(space)])
        b == FindByName(st[s].blocks, block)
        available_vnets == DropAssigned(AvailableVnets(st[s].blocks[b]),
                                        AssignedElsewhere(st, space, block))
    IN  IF s = 0 THEN Raise(400, "Invalid space name.")
        ELSE IF b = 0 THEN Raise(400, "Invalid block name.")
        ELSE Return(200, NoWrite,
                    IF expand THEN available_vnets
                    ELSE [i \in DOMAIN available_vnets |-> available_vnets[i].id])

\* resv['space'] = target_space['name']; resv['block'] = block['name']
ResvView(resv, space, block) ==
    [i \in DOMAIN resv |-> [space |-> space.name, block |-> block.name] @@ resv[i]]

\* block['resv'] if settled else [r for r in block['resv'] if not r['settledOn']]
Listed(block, settled) == IF settled THEN block.resv ELSE Unsettled(block.resv)

get_multi_block_reservations(st, caller, space, settled) ==
    IF SpaceQuery(st, space) = <<>> THEN Raise(400, "Invalid space name.")
    ELSE LET target_space == SpaceQuery(st, space)[1]
             resv_list == Flatten([b \in DOMAIN target_space.blocks |->
                              ResvView(Listed(target_space.blocks[b], settled),
                                       target_space, target_space.blocks[b])])
         IN  Return(200, NoWrite, OwnResv(resv_list, caller))

get_block_reservations(st, caller, space, block, settled) ==
    IF SpaceQuery(st, space) = <<>> THEN Raise(400, "Invalid space name.")
    ELSE LET target_space == SpaceQuery(st, space)[1]
             b == FindByName(target_space.blocks, block)
             target_block == target_space.blocks[b]
         IN  IF b = 0 THEN Raise(400, "Invalid block name.")
             ELSE Return(200, NoWrite,
                         OwnResv(ResvView(Listed(target_block, settled),
                                          target_space, target_block), caller))

get_block_reservation(st, caller, space, block, reservation) ==
    IF SpaceQuery(st, space) = <<>> THEN Raise(400, "Invalid space name.")
    ELSE LET target_space == SpaceQuery(st, space)[1]
             b == FindByName(target_space.blocks, block)
             target_block == target_space.blocks[b]
             k == FirstIdx([i \in DOMAIN target_block.resv |->
                               target_block.resv[i].id = reservation])
         IN  IF b = 0 THEN Raise(400, "Invalid block name.")
             ELSE IF k = 0 THEN Raise(400, "Invalid reservation ID.")
             ELSE IF ~caller.admin /\ target_block.resv[k].createdBy # caller.user
                  THEN Raise(403, "Users can only view their own reservations.")
             ELSE Return(200, NoWrite,
                         ResvView(target_block.resv, target_space, target_block)[k])

(***************************************************************************)
(* External networks                                                       *)
(***************************************************************************)
\* req: [name, desc, cidr, size]; cidr is NoneCidr for a request by size.
create_external_network(st, caller, space, block, req) ==
    IF ~caller.admin THEN Err(403)
    ELSE IF ~NameOk(req.name) THEN Err(400)
    ELSE IF ~NameOk(req.desc) THEN Err(400)
    ELSE IF SpaceQuery(st, space) = <<>> THEN Err(400)
    ELSE LET target_space == SpaceQuery(st, space)[1]
             b == FindByName(target_space.blocks, block)
             target_block == target_space.blocks[b]
             block_set == IPSet(VnetCidrs(target_block))
             resv_set == IPSet(CidrsOf(Unsettled(target_block.resv)))
             external_set == IPSet(CidrsOf(target_block.externals))
             available_set == Xor(Range(target_block.cidr),
                                  resv_set \cup external_set \cup block_set)
             fits == SelectSeq(iter_cidrs(available_set), LAMBDA x : x.len <= req.size)
             commit(next_cidr) ==
                 Done(201, ReplaceW(target_space,
                     [target_space EXCEPT !.blocks[b].externals =
                         Append(@, [name |-> req.name, desc |-> req.desc,
                                    cidr |-> next_cidr, subnets |-> <<>>])]))
         IN  IF b = 0 THEN Err(400)
             ELSE IF \E i \in DOMAIN target_block.externals :
                        target_block.externals[i].name = req.name THEN Err(400)
             ELSE IF req.cidr # NoneCidr THEN
                    (IF ~Parses(req.cidr) THEN Err(400)
                     ELSE IF ~IsCanonical(req.cidr) THEN Err(400)
                     ELSE IF ~NetIn(req.cidr, target_block.cidr) THEN Err(400)
                     ELSE IF Range(req.cidr) \cap external_set # {} THEN Err(400)
                     ELSE IF Range(req.cidr) \cap resv_set # {} THEN Err(400)
                     ELSE IF Range(req.cidr) \cap block_set # {} THEN Err(400)
                     ELSE commit(req.cidr))
             ELSE IF fits = <<>> THEN Err(500)
             ELSE commit(subnet(fits[1], req.size)[1])

\* SELECT VALUE u FROM c join t IN c.blocks join u IN t.externals
\*   WHERE LOWER(c.name) = LOWER(space) AND LOWER(t.name) = LOWER(block)
ExternalsQuery(st, space, block) ==
    LET blocks == SelectSeq(BlocksQuery(st, space), LAMBDA t : Lower(t.name) = Lower(block))
    IN  Flatten([i \in DOMAIN blocks |-> blocks[i].externals])

valid_ext_network_name_update(st, name, space_name, block_name, external_name) ==
    LET externals == ExternalsQuery(st, space_name, block_name)
        other_networks == {Lower(externals[i].name) :
            i \in {j \in DOMAIN externals : Lower(externals[j].name) # Lower(external_name)}}
    IN  /\ Lower(name) \notin other_networks
        /\ NameOk(name)

\* Lines 247-261: what the new CIDR must avoid, and what it must contain. An
\* external network is the patched one when its name equals the path's name as written.
ExtUpdateBlockCidrs(target_block, externals, external_name) ==
    Flatten([k \in DOMAIN target_block.vnets |-> AllPrefixes(target_block.vnets[k].id)])
    \o CidrsOf(Unsettled(target_block.resv))
    \o CidrsOf(SelectSeq(externals, LAMBDA e : e.name # external_name))

ExtUpdateSubnetCidrs(externals, external_name) ==
    Flatten([i \in DOMAIN externals |->
        IF externals[i].name # external_name THEN <<>> ELSE CidrsOf(externals[i].subnets)])

\* The validator with the current CIDR refused as a new value.
valid_ext_network_cidr_change(st, cidr, space_name, block_name, external_name) ==
    LET blocks == BlocksQuery(st, space_name)
        t == FindByName(blocks, block_name)
        externals == ExternalsQuery(st, space_name, block_name)
        e == FindByName(externals, external_name)
        update_set == Range(cidr)
        block_set == IPSet(ExtUpdateBlockCidrs(blocks[t], externals, external_name))
        external_set == IPSet(ExtUpdateSubnetCidrs(externals, external_name))
    IN  IF t # 0 /\ e # 0 /\ cidr = externals[e].cidr THEN FALSE
        ELSE IF ~Parses(cidr) THEN FALSE
        ELSE IF t # 0 /\ e # 0 /\ ~IsCanonical(cidr) THEN FALSE
        ELSE IF t # 0 /\ e # 0 /\ ~NetIn(cidr, blocks[t].cidr) THEN FALSE
        ELSE IF t = 0 THEN FALSE
        ELSE IF block_set \cap update_set # {} THEN FALSE
        ELSE external_set \subseteq update_set

valid_ext_network_cidr_update(st, cidr, space_name, block_name, external_name) ==
    LET blocks == BlocksQuery(st, space_name)
        t == FindByName(blocks, block_name)
        externals == ExternalsQuery(st, space_name, block_name)
        e == FindByName(externals, external_name)
        update_set == Range(cidr)
        block_set == IPSet(ExtUpdateBlockCidrs(blocks[t], externals, external_name))
        external_set == IPSet(ExtUpdateSubnetCidrs(externals, external_name))
    IN  IF t # 0 /\ e # 0 /\ cidr = externals[e].cidr THEN TRUE
        ELSE IF ~Parses(cidr) THEN FALSE
        ELSE IF t # 0 /\ e # 0 /\ ~IsCanonical(cidr) THEN FALSE
        ELSE IF t # 0 /\ e # 0 /\ ~NetIn(cidr, blocks[t].cidr) THEN FALSE
        ELSE IF t = 0 THEN FALSE
        ELSE IF block_set \cap update_set # {} THEN FALSE
        ELSE external_set \subseteq update_set

ExtAllowed(item) == item.op = "replace" /\ item.path \in {"/name", "/desc", "/cidr"}

ExtItemValid(st, item, space_name, block_name, external_name) ==
    CASE item.path = "/name" ->
            valid_ext_network_name_update(st, item.value, space_name, block_name, external_name)
      [] item.path = "/desc" -> NameOk(item.value)
      [] OTHER ->
            valid_ext_network_cidr_update(st, item.value, space_name, block_name, external_name)

update_ext_network(st, vst, caller, space, block, external, updates) ==
    IF ~caller.admin THEN Err(403)
    ELSE IF SpaceQuery(st, space) = <<>> THEN Err(400)
    ELSE LET target_space == SpaceQuery(st, space)[1]
             b == FindByName(target_space.blocks, block)
             e == FindByName(target_space.blocks[b].externals, external)
             scrubbed == Scrub(updates,
                               [i \in DOMAIN updates |-> ExtAllowed(updates[i])],
                               [i \in DOMAIN updates |->
                                   ExtAllowed(updates[i]) => ExtItemValid(vst, updates[i], space, block, external)])
         IN  IF b = 0 THEN Err(400)
             ELSE IF e = 0 THEN Err(400)
             ELSE IF ~scrubbed.ok THEN Err(400)
             ELSE Done(200, ReplaceW(target_space,
                     [target_space EXCEPT !.blocks[b].externals[e] =
                         ApplyPatch(@, scrubbed.patch)]))

delete_external_network(st, caller, space, block, external, force) ==
    IF ~caller.admin THEN Err(403)
    ELSE IF SpaceQuery(st, space) = <<>> THEN Err(400)
    ELSE LET target_space == SpaceQuery(st, space)[1]
             b == FindByName(target_space.blocks, block)
             index == IndexByExactName(target_space.blocks[b].externals, external)
         IN  IF b = 0 THEN Err(400)
             ELSE IF index = 0 THEN Err(400)
             ELSE IF ~force /\ Len(target_space.blocks[b].externals[index].subnets) > 0
                  THEN Err(400)
             ELSE Done(200, ReplaceW(target_space,
                     [target_space EXCEPT !.blocks[b].externals = DelAt(@, index)]))

(***************************************************************************)
(* External subnets                                                        *)
(***************************************************************************)
create_external_subnet(st, caller, space, block, external, req) ==
    IF ~caller.admin THEN Err(403)
    ELSE IF ~NameOk(req.name) THEN Err(400)
    ELSE IF ~NameOk(req.desc) THEN Err(400)
    ELSE IF SpaceQuery(st, space) = <<>> THEN Err(400)
    ELSE LET target_space == SpaceQuery(st, space)[1]
             b == FindByName(target_space.blocks, block)
             e == FindByName(target_space.blocks[b].externals, external)
             target_external == target_space.blocks[b].externals[e]
             available_set == Xor(Range(target_external.cidr),
                                  IPSet(CidrsOf(target_external.subnets)))
             fits == SelectSeq(iter_cidrs(available_set), LAMBDA x : x.len <= req.size)
             commit(next_cidr) ==
                 Done(201, ReplaceW(target_space,
                     [target_space EXCEPT !.blocks[b].externals[e].subnets =
                         Append(@, [name |-> req.name, desc |-> req.desc,
                                    cidr |-> next_cidr, endpoints |-> <<>>])]))
         IN  IF b = 0 THEN Err(400)
             ELSE IF e = 0 THEN Err(400)
             ELSE IF \E i \in DOMAIN target_external.subnets :
                        target_external.subnets[i].name = req.name THEN Err(400)
             ELSE IF req.cidr # NoneCidr THEN
                    (IF ~Parses(req.cidr) THEN Err(400)
                     ELSE IF ~IsCanonical(req.cidr) THEN Err(400)
                     ELSE IF ~NetIn(req.cidr, target_external.cidr) THEN Err(400)
                     ELSE IF ~NetInSet(req.cidr, available_set) THEN Err(409)
                     ELSE commit(req.cidr))
             ELSE IF fits = <<>> THEN Err(500)
             ELSE commit(subnet(fits[1], req.size)[1])

\* SELECT VALUE v FROM c join t IN c.blocks join u IN t.externals join v IN u.subnets
\*   WHERE ... LOWER(u.name) = LOWER(external)
SubnetsQuery(st, space, block, external) ==
    LET externals == SelectSeq(ExternalsQuery(st, space, block),
                               LAMBDA u : Lower(u.name) = Lower(external))
    IN  Flatten([i \in DOMAIN externals |-> externals[i].subnets])

\* A str compared with a dict: never equal.
StrEqDoc(s, doc) == FALSE

\* s in docs, for a list of documents.
StrInDocs(s, docs) == \E i \in DOMAIN docs : StrEqDoc(s, docs[i])

\* The query selects the subnet documents (VALUE v), not their names.
valid_ext_subnet_name_update(st, name, space_name, block_name, external_name, subnet_name) ==
    LET other_subnets == SelectSeq(SubnetsQuery(st, space_name, block_name, external_name),
                                   LAMBDA v : Lower(v.name) # Lower(subnet_name))
    IN  /\ ~StrInDocs(Lower(name), other_subnets)
        /\ NameOk(name)

\* Lines 354-359: a subnet is the patched one when its name equals the path's
\* name as written.
SubnetUpdateOtherCidrs(subnets, subnet_name) ==
    CidrsOf(SelectSeq(subnets, LAMBDA v : v.name # subnet_name))

SubnetUpdateIps(subnets, subnet_name) ==
    UNION {{subnets[i].endpoints[k].ip : k \in DOMAIN subnets[i].endpoints} :
             i \in {j \in DOMAIN subnets : subnets[j].name = subnet_name}}

valid_ext_subnet_cidr_update(st, cidr, space_name, block_name, external_name, subnet_name) ==
    LET externals == ExternalsQuery(st, space_name, block_name)
        e == FindByName(externals, external_name)
        subnets == SubnetsQuery(st, space_name, block_name, external_name)
        v == FindByName(subnets, subnet_name)
        update_set == Range(cidr)
        external_set == IPSet(SubnetUpdateOtherCidrs(subnets, subnet_name))
        subnet_set == SubnetUpdateIps(subnets, subnet_name)
    IN  IF e # 0 /\ v # 0 /\ cidr = subnets[v].cidr THEN TRUE
        ELSE IF ~Parses(cidr) THEN FALSE
        ELSE IF e # 0 /\ v # 0 /\ ~IsCanonical(cidr) THEN FALSE
        ELSE IF e # 0 /\ v # 0 /\ ~NetIn(cidr, externals[e].cidr) THEN FALSE
        ELSE IF external_set \cap update_set # {} THEN FALSE
        ELSE subnet_set \subseteq update_set

SubnetItemValid(st, item, space_name, block_name, external_name, subnet_name) ==
    CASE item.path = "/name" ->
            valid_ext_subnet_name_update(st, item.value, space_name, block_name,
                                         external_name, subnet_name)
      [] item.path = "/desc" -> NameOk(item.value)
      [] OTHER ->
            valid_ext_subnet_cidr_update(st, item.value, space_name, block_name,
                                         external_name, subnet_name)

update_ext_subnet(st, vst, caller, space, block, external, subnet_name, updates) ==
    IF ~caller.admin THEN Err(403)
    ELSE IF SpaceQuery(st, space) = <<>> THEN Err(400)
    ELSE LET target_space == SpaceQuery(st, space)[1]
             b == FindByName(target_space.blocks, block)
             e == FindByName(target_space.blocks[b].externals, external)
             v == FindByName(target_space.blocks[b].externals[e].subnets, subnet_name)
             scrubbed == Scrub(updates,
                               [i \in DOMAIN updates |-> ExtAllowed(updates[i])],
                               [i \in DOMAIN updates |->
                                   ExtAllowed(updates[i]) => SubnetItemValid(vst, updates[i], space, block, external, subnet_name)])
         IN  IF b = 0 THEN Err(400)
             ELSE IF e = 0 THEN Err(400)
             ELSE IF v = 0 THEN Err(400)
             ELSE IF ~scrubbed.ok THEN Err(400)
             ELSE Done(200, ReplaceW(target_space,
                     [target_space EXCEPT !.blocks[b].externals[e].subnets[v] =
                         ApplyPatch(@, scrubbed.patch)]))

delete_external_subnet(st, caller, space, block, external, subnet_name, force) ==
    IF ~caller.admin THEN Err(403)
    ELSE IF SpaceQuery(st, space) = <<>> THEN Err(400)
    ELSE LET target_space == SpaceQuery(st, space)[1]
             b == FindByName(target_space.blocks, block)
             e == FindByName(target_space.blocks[b].externals, external)
             subnets == target_space.blocks[b].externals[e].subnets
             index == IndexByExactName(subnets, subnet_name)
         IN  IF b = 0 THEN Err(400)
             ELSE IF e = 0 THEN Err(400)
             ELSE IF index = 0 THEN Err(400)
             ELSE IF ~force /\ Len(subnets[index].endpoints) > 0 THEN Err(400)
             ELSE Done(200, ReplaceW(target_space,
                     [target_space EXCEPT !.blocks[b].externals[e].subnets = DelAt(@, index)]))

(***************************************************************************)
(* External endpoints. An ip is an address; -1 stands for None.            *)
(***************************************************************************)
EndpointIps(endpoints) == {endpoints[k].ip : k \in DOMAIN endpoints}

\* Lines 2470-2474: the first address of the first CIDR of
\* endpoint_addr_set ^ IPSet(subnet_network.iter_hosts()); <<>> when the set
\* is empty and available_block is None.
NextIp(endpoint_addr_set, cidr) ==
    LET available_set == Xor(endpoint_addr_set, iter_hosts(cidr))
        cidrs == iter_cidrs(available_set)
    IN  IF cidrs = <<>> THEN <<>> ELSE <<subnet(cidrs[1], AddrBits)[1].ip>>

create_external_subnet_endpoint(st, caller, space, block, external, subnet_name, endpoint) ==
    IF ~caller.admin THEN Err(403)
    ELSE IF SpaceQuery(st, space) = <<>> THEN Err(400)
    ELSE LET target_space == SpaceQuery(st, space)[1]
             b == FindByName(target_space.blocks, block)
             e == FindByName(target_space.blocks[b].externals, external)
             v == FindByName(target_space.blocks[b].externals[e].subnets, subnet_name)
             target_ext_subnet == target_space.blocks[b].externals[e].subnets[v]
             endpoints == target_ext_subnet.endpoints
             endpoint_addr_set == EndpointIps(endpoints)
             next_ip == NextIp(endpoint_addr_set, target_ext_subnet.cidr)
             commit(ip) ==
                 Done(201, ReplaceW(target_space,
                     [target_space EXCEPT !.blocks[b].externals[e].subnets[v].endpoints =
                         Append(@, [endpoint EXCEPT !.ip = ip])]))
         IN  IF b = 0 THEN Err(400)
             ELSE IF e = 0 THEN Err(400)
             ELSE IF v = 0 THEN Err(400)
             ELSE IF \E k \in DOMAIN endpoints : Lower(endpoints[k].name) = Lower(endpoint.name)
                  THEN Err(400)
             ELSE IF ~NameOk(endpoint.name) THEN Err(400)
             ELSE IF ~NameOk(endpoint.desc) THEN Err(400)
             ELSE IF Len(endpoints) >= Cardinality(iter_hosts(target_ext_subnet.cidr))
                  THEN Err(400)
             ELSE IF endpoint.ip # -1 /\ endpoint.ip \in endpoint_addr_set THEN Err(400)
             ELSE IF endpoint.ip # -1 /\ endpoint.ip \notin Range(target_ext_subnet.cidr)
                  THEN Err(400)
             ELSE IF endpoint.ip # -1 THEN commit(endpoint.ip)
             ELSE IF next_ip = <<>> THEN Err(500)
             ELSE commit(next_ip[1])

\* Lines 2566-2573: the addresses the list names, and whether two of them are equal.
RECURSIVE ListedIps(_)
ListedIps(endpoints) ==
    IF endpoints = <<>> THEN [set |-> {}, overlap |-> FALSE]
    ELSE LET rest == ListedIps(SubSeq(endpoints, 1, Len(endpoints) - 1))
             ip == endpoints[Len(endpoints)].ip
         IN  IF ip = -1 THEN rest
             ELSE IF ip \notin rest.set THEN [rest EXCEPT !.set = @ \cup {ip}]
             ELSE [rest EXCEPT !.overlap = TRUE]

\* Lines 2583-2589: every endpoint without an ip gets the next one, in list order.
RECURSIVE AssignIps(_, _, _)
AssignIps(endpoints, endpoint_addr_set, cidr) ==
    IF endpoints = <<>> THEN [raised |-> FALSE, list |-> <<>>]
    ELSE LET ep == Head(endpoints)
             next_ip == NextIp(endpoint_addr_set, cidr)
             rest(set) == AssignIps(Tail(endpoints), set, cidr)
         IN  IF ep.ip # -1
             THEN [rest(endpoint_addr_set) EXCEPT !.list = <<ep>> \o @]
             ELSE IF next_ip = <<>> THEN [raised |-> TRUE, list |-> <<>>]
             ELSE [rest(endpoint_addr_set \cup {next_ip[1]}) EXCEPT
                      !.list = <<[ep EXCEPT !.ip = next_ip[1]]>> \o @]

update_external_subnet_enpoints(st, caller, space, block, external, subnet_name, endpoints) ==
    IF ~caller.admin THEN Err(403)
    ELSE IF Cardinality({endpoints[k].name : k \in DOMAIN endpoints}) # Len(endpoints)
         THEN Err(400)
    \* endpoint['name'] on a request model raises TypeError
    ELSE IF \E k \in DOMAIN endpoints : ~NameOk(endpoints[k].name) \/ ~NameOk(endpoints[k].desc)
         THEN Err(500)
    ELSE IF SpaceQuery(st, space) = <<>> THEN Err(400)
    ELSE LET target_space == SpaceQuery(st, space)[1]
             b == FindByName(target_space.blocks, block)
             e == FindByName(target_space.blocks[b].externals, external)
             v == FindByName(target_space.blocks[b].externals[e].subnets, subnet_name)
             target_ext_subnet == target_space.blocks[b].externals[e].subnets[v]
             listed == ListedIps(endpoints)
             assigned == AssignIps(endpoints, listed.set, target_ext_subnet.cidr)
         IN  IF b = 0 THEN Err(400)
             ELSE IF e = 0 THEN Err(400)
             ELSE IF v = 0 THEN Err(400)
             ELSE IF Cardinality(iter_hosts(target_ext_subnet.cidr)) < Len(endpoints)
                  THEN Err(400)
             ELSE IF listed.overlap THEN Err(400)
             ELSE IF ~(listed.set \subseteq Range(target_ext_subnet.cidr)) THEN Err(400)
             ELSE IF assigned.raised THEN Err(500)
             ELSE Done(200, ReplaceW(target_space,
                     [target_space EXCEPT !.blocks[b].externals[e].subnets[v].endpoints =
                         assigned.list]))

\* The handler with the list it has cut down so far written on the error too.
delete_external_subnet_endpoints_partly(st, caller, space, block, external, subnet_name, req) ==
    LET target_space == SpaceQuery(st, space)[1]
        endpoints == target_space.blocks[1].externals[1].subnets[1].endpoints
        kept == SelectSeq(endpoints, LAMBDA x : x.name \notin SeqSet(req))
        written == ReplaceW(target_space,
                      [target_space EXCEPT !.blocks[1].externals[1].subnets[1].endpoints = kept])
    IN  IF ~caller.admin THEN Err(403)
        ELSE IF \E i \in DOMAIN req : \A k \in DOMAIN endpoints : endpoints[k].name # req[i]
             THEN Return(400, written, Null)
        ELSE Done(200, written)

\* Lines 2657-2663: del endpoints[index] for each listed name, in order.
RECURSIVE DeleteNamed(_, _)
DeleteNamed(endpoints, req) ==
    IF req = <<>> THEN [invalid |-> FALSE, list |-> endpoints]
    ELSE LET index == IndexByExactName(endpoints, Head(req))
         IN  IF index = 0
             THEN [DeleteNamed(endpoints, Tail(req)) EXCEPT !.invalid = TRUE]
             ELSE DeleteNamed(DelAt(endpoints, index), Tail(req))

delete_external_subnet_endpoints(st, caller, space, block, external, subnet_name, req) ==
    IF ~caller.admin THEN Err(403)
    ELSE IF SpaceQuery(st, space) = <<>> THEN Err(400)
    ELSE LET target_space == SpaceQuery(st, space)[1]
             b == FindByName(target_space.blocks, block)
             e == FindByName(target_space.blocks[b].externals, external)
             v == FindByName(target_space.blocks[b].externals[e].subnets, subnet_name)
             deleted == DeleteNamed(target_space.blocks[b].externals[e].subnets[v].endpoints, req)
         IN  IF b = 0 THEN Err(400)
             ELSE IF e = 0 THEN Err(400)
             ELSE IF v = 0 THEN Err(400)
             ELSE IF Cardinality(SeqSet(req)) # Len(req) THEN Err(400)
             ELSE IF deleted.invalid THEN Err(400)
             ELSE Done(200, ReplaceW(target_space,
                     [target_space EXCEPT !.blocks[b].externals[e].subnets[v].endpoints =
                         deleted.list]))

\* SELECT VALUE x FROM ... join v IN u.subnets join x in v.endpoints
\*   WHERE ... LOWER(v.name) = LOWER(subnet)
EndpointsQuery(st, space, block, external, subnet_name) ==
    LET subnets == SelectSeq(SubnetsQuery(st, space, block, external),
                             LAMBDA v : Lower(v.name) = Lower(subnet_name))
    IN  Flatten([i \in DOMAIN subnets |-> subnets[i].endpoints])

\* The query selects the endpoint documents (VALUE x), not their names.
valid_ext_endpoint_name_update(st, name, space_name, block_name, external_name, subnet_name, endpoint_name) ==
    LET other_endpoints ==
            SelectSeq(EndpointsQuery(st, space_name, block_name, external_name, subnet_name),
                      LAMBDA x : Lower(x.name) # Lower(endpoint_name))
    IN  /\ ~StrInDocs(Lower(name), other_endpoints)
        /\ NameOk(name)

valid_ext_endpoint_ip_update(st, ip, space_name, block_name, external_name, subnet_name, endpoint_name) ==
    LET subnets == SubnetsQuery(st, space_name, block_name, external_name)
        v == FindByName(subnets, subnet_name)
        endpoints == EndpointsQuery(st, space_name, block_name, external_name, subnet_name)
        x == FindByName(endpoints, endpoint_name)
        subnet_ips == EndpointIps(SelectSeq(endpoints, LAMBDA y : y.name # endpoint_name))
    IN  IF v # 0 /\ x # 0 /\ ip = endpoints[x].ip THEN TRUE
        ELSE IF ip \notin Addrs THEN FALSE
        ELSE IF v # 0 /\ x # 0 /\ ip \notin Range(subnets[v].cidr) THEN FALSE
        ELSE ip \notin subnet_ips

EndpointAllowed(item) == item.op = "replace" /\ item.path \in {"/name", "/desc", "/ip"}

EndpointItemValid(st, item, space_name, block_name, external_name, subnet_name, endpoint_name) ==
    CASE item.path = "/name" ->
            valid_ext_endpoint_name_update(st, item.value, space_name, block_name,
                                           external_name, subnet_name, endpoint_name)
      [] item.path = "/desc" -> NameOk(item.value)
      [] OTHER ->
            valid_ext_endpoint_ip_update(st, item.value, space_name, block_name,
                                         external_name, subnet_name, endpoint_name)

update_ext_endpoint(st, vst, caller, space, block, external, subnet_name, endpoint_name, updates) ==
    IF ~caller.admin THEN Err(403)
    ELSE IF SpaceQuery(st, space) = <<>> THEN Err(400)
    ELSE LET target_space == SpaceQuery(st, space)[1]
             b == FindByName(target_space.blocks, block)
             e == FindByName(target_space.blocks[b].externals, external)
             v == FindByName(target_space.blocks[b].externals[e].subnets, subnet_name)
             x == FindByName(target_space.blocks[b].externals[e].subnets[v].endpoints,
                             endpoint_name)
             scrubbed == Scrub(updates,
                               [i \in DOMAIN updates |-> EndpointAllowed(updates[i])],
                               [i \in DOMAIN updates |->
                                   EndpointAllowed(updates[i]) => EndpointItemValid(vst, updates[i], space, block, external, subnet_name, endpoint_name)])
         IN  IF b = 0 THEN Err(400)
             ELSE IF e = 0 THEN Err(400)
             ELSE IF v = 0 THEN Err(400)
             ELSE IF x = 0 THEN Err(400)
             ELSE IF ~scrubbed.ok THEN Err(400)
             ELSE Done(200, ReplaceW(target_space,
                     [target_space EXCEPT !.blocks[b].externals[e].subnets[v].endpoints[x] =
                         ApplyPatch(@, scrubbed.patch)]))

delete_external_subnet_endpoint(st, caller, space, block, external, subnet_name, endpoint_name) ==
    IF ~caller.admin THEN Err(403)
    ELSE IF SpaceQuery(st, space) = <<>> THEN Err(400)
    ELSE LET target_space == SpaceQuery(st, space)[1]
             b == FindByName(target_space.blocks, block)
             e == FindByName(target_space.blocks[b].externals, external)
             v == FindByName(target_space.blocks[b].externals[e].subnets, subnet_name)
             index == IndexByExactName(
                          target_space.blocks[b].externals[e].subnets[v].endpoints, endpoint_name)
         IN  IF b = 0 THEN Err(400)
             ELSE IF e = 0 THEN Err(400)
             ELSE IF v = 0 THEN Err(400)
             ELSE IF index = 0 THEN Err(400)
             ELSE Done(200, ReplaceW(target_space,
                     [target_space EXCEPT !.blocks[b].externals[e].subnets[v].endpoints =
                         DelAt(@, index)]))

(***************************************************************************)
(* State.                                                                  *)
(*   store  the tenant's Space documents, in the order they were created   *)
(*   last   the request handled last and the response it got               *)
(*   proc   the requests in flight: what each has read and how often it    *)
(*          has tried                                                      *)
(*   serial the documents as they would be had every committed request run *)
(*          alone, one after another in commit order                       *)
(***************************************************************************)
VARIABLES store, last, proc, serial

vars == <<store, last, proc, serial>>

Procs == {1, 2}

\* A request: the handler, the caller, the path's names and the body.
Request(op, caller, space, block, body) ==
    [op |-> op, caller |-> caller, space |-> space, block |-> block, body |-> body]

\* No request.
NoRequest == Request("none", "", "", "", "")

\* pc       idle, query (about to read), write (about to call the store), done
\* snap     what the handler's space_query returned
\* vsnap    what the validators' own queries returned
\* changed  the ids of the documents written since the handler's query: the
\*          documents whose _etag is no longer the one the handler read
\* tries    the attempts begun, conflicts the attempts that ended in a
\*          precondition failure
Idle == [pc |-> "idle", req |-> NoRequest, snap |-> <<>>,
         vsnap |-> <<>>, changed |-> {}, tries |-> 0, conflicts |-> 0,
         code |-> 0, detail |-> ""]

Admin == [admin |-> TRUE, user |-> "root"]
Alice == [admin |-> FALSE, user |-> "alice"]
Bob == [admin |-> FALSE, user |-> "bob"]

Response(req, res) ==
    [op |-> req.op, code |-> res.code, detail |-> res.detail, req |-> req, out |-> res.out]

NoResponse == [op |-> "init", code |-> 0, detail |-> "", req |-> NoRequest, out |-> Null]

Init ==
    /\ store = <<>>
    /\ last = NoResponse
    /\ proc = [p \in Procs |-> Idle]
    /\ serial = <<>>

\* A request handled from its read to its store call with no other request between.
ActOn(req, res) ==
    /\ store' = Apply(store, res.write)
    /\ serial' = Apply(store, res.write)
    /\ last' = Response(req, res)
    /\ UNCHANGED proc

\* uuid.uuid4(): an id no document has.
NewSpaceId(st) == 1 + Max({st[i].id : i \in DOMAIN st})

ReplaceItem(path, value) == [op |-> "replace", path |-> path, value |-> value]
RemoveItem(path) == [op |-> "remove", path |-> path, value |-> Null]

CreateSpace(callers, names) ==
    \E c \in callers, n \in names :
        /\ Len(store) < MaxSpaces
        /\ ActOn(Request("create_space", c, "", "", [name |-> n, desc |-> "d"]),
                 create_space(store, c, [name |-> n, desc |-> "d"], NewSpaceId(store)))

UpdateSpace(callers, spaces, patches) ==
    \E c \in callers, s \in spaces, p \in patches :
        ActOn(Request("update_space", c, s, "", p), update_space(store, store, c, s, p))

DeleteSpace(callers, spaces) ==
    \E c \in callers, s \in spaces, force \in BOOLEAN :
        ActOn(Request("delete_space", c, s, "", [force |-> force]),
              delete_space(store, c, s, force))

CreateBlock(callers, spaces, names, cidrs) ==
    \E c \in callers, s \in spaces, n \in names, x \in cidrs :
        /\ \A i \in DOMAIN store : Len(store[i].blocks) < MaxBlocks
        /\ ActOn(Request("create_block", c, s, "", [name |-> n, cidr |-> x]),
                 create_block(store, c, s, [name |-> n, cidr |-> x]))

UpdateBlock(callers, spaces, names, patches) ==
    \E c \in callers, s \in spaces, n \in names, p \in patches :
        ActOn(Request("update_block", c, s, n, p), update_block(store, store, c, s, n, p))

DeleteBlock(callers, spaces, names) ==
    \E c \in callers, s \in spaces, n \in names, force \in BOOLEAN :
        ActOn(Request("delete_block", c, s, n, [force |-> force]),
              delete_block(store, c, s, n, force))

\* shortuuid.uuid(): an id no reservation has.
NewResvId(st) ==
    LET blocks == Flatten([i \in DOMAIN st |-> st[i].blocks])
    IN  1 + Max(UNION {{blocks[i].resv[k].id : k \in DOMAIN blocks[i].resv} : i \in DOMAIN blocks})

\* time.time(): a time after every stamp the documents hold.
Now(st) ==
    LET blocks == Flatten([i \in DOMAIN st |-> st[i].blocks])
    IN  1 + Max(UNION {{blocks[i].resv[k].settledOn : k \in DOMAIN blocks[i].resv} : i \in DOMAIN blocks})

CreateBlockNet(callers, spaces, names, ids) ==
    \E c \in callers, s \in spaces, n \in names, v \in ids :
        ActOn(Request("create_block_net", c, s, n, v), create_block_net(store, c, s, n, v))

UpdateBlockVnets(callers, spaces, names, lists) ==
    \E c \in callers, s \in spaces, n \in names, vs \in lists :
        ActOn(Request("update_block_vnets", c, s, n, vs),
              update_block_vnets(store, c, s, n, vs))

DeleteBlockNets(callers, spaces, names, lists) ==
    \E c \in callers, s \in spaces, n \in names, vs \in lists :
        ActOn(Request("delete_block_nets", c, s, n, vs), delete_block_nets(store, c, s, n, vs))

\* Reservations are created while the blocks hold fewer than MaxResv of them.
CreateBlockReservation(callers, spaces, names, reqs) ==
    \E c \in callers, s \in spaces, n \in names, r \in reqs :
        /\ \/ create_block_reservation(store, c, s, n, r, NewResvId(store)).write.kind = "none"
           \/ \A i \in DOMAIN store : \A b \in DOMAIN store[i].blocks :
                  Len(store[i].blocks[b].resv) < MaxResv
        /\ ActOn(Request("create_block_reservation", c, s, n, r),
                 create_block_reservation(store, c, s, n, r, NewResvId(store)))

CreateMultiBlockReservation(callers, spaces, reqs) ==
    \E c \in callers, s \in spaces, r \in reqs :
        /\ \/ create_multi_block_reservation(store, c, s, r, NewResvId(store)).write.kind = "none"
           \/ \A i \in DOMAIN store : \A b \in DOMAIN store[i].blocks :
                  Len(store[i].blocks[b].resv) < MaxResv
        /\ ActOn(Request("create_multi_block_reservation", c, s, "", r),
                 create_multi_block_reservation(store, c, s, r, NewResvId(store)))

DeleteBlockReservations(callers, spaces, names, lists) ==
    \E c \in callers, s \in spaces, n \in names, ids \in lists :
        ActOn(Request("delete_block_reservations", c, s, n, ids),
              delete_block_reservations(store, c, s, n, ids, Now(store)))

DeleteBlockReservation(callers, spaces, names, ids) ==
    \E c \in callers, s \in spaces, n \in names, id \in ids :
        ActOn(Request("delete_block_reservation", c, s, n, id),
              delete_block_reservation(store, c, s, n, id, Now(store)))

\* The flags of a space or block GET.
Flags(expand, utilization) == [expand |-> expand, utilization |-> utilization]

GetSpaces(callers, flags) ==
    \E c \in callers, f \in flags :
        ActOn(Request("get_spaces", c, "", "", f),
              get_spaces(store, c, f.expand, f.utilization))

GetSpace(callers, spaces, flags) ==
    \E c \in callers, s \in spaces, f \in flags :
        ActOn(Request("get_space", c, s, "", f),
              get_space(store, c, s, f.expand, f.utilization))

GetBlocks(callers, spaces, flags) ==
    \E c \in callers, s \in spaces, f \in flags :
        ActOn(Request("get_blocks", c, s, "", f),
              get_blocks(store, c, s, f.expand, f.utilization))

GetBlock(callers, spaces, names, flags) ==
    \E c \in callers, s \in spaces, n \in names, f \in flags :
        ActOn(Request("get_block", c, s, n, f),
              get_block(store, c, s, n, f.expand, f.utilization))

AvailableBlockNets(callers, spaces, names, expand) ==
    \E c \in callers, s \in spaces, n \in names, x \in expand :
        ActOn(Request("available_block_nets", c, s, n, [expand |-> x]),
              available_block_nets(store, c, s, n, x))

GetMultiBlockReservations(callers, spaces, settled) ==
    \E c \in callers, s \in spaces, x \in settled :
        ActOn(Request("get_multi_block_reservations", c, s, "", x),
              get_multi_block_reservations(store, c, s, x))

GetBlockReservations(callers, spaces, names, settled) ==
    \E c \in callers, s \in spaces, n \in names, x \in settled :
        ActOn(Request("get_block_reservations", c, s, n, x),
              get_block_reservations(store, c, s, n, x))

GetBlockReservation(callers, spaces, names, ids) ==
    \E c \in callers, s \in spaces, n \in names, id \in ids :
        ActOn(Request("get_block_reservation", c, s, n, id),
              get_block_reservation(store, c, s, n, id))

CreateExternalNetwork(callers, spaces, names, reqs) ==
    \E c \in callers, s \in spaces, n \in names, r \in reqs :
        /\ \A i \in DOMAIN store : \A b \in DOMAIN store[i].blocks :
               Len(store[i].blocks[b].externals) < MaxExternals
        /\ ActOn(Request("create_external_network", c, s, n, r),
                 create_external_network(store, c, s, n, r))

UpdateExtNetwork(callers, spaces, names, externals, patches) ==
    \E c \in callers, s \in spaces, n \in names, e \in externals, p \in patches :
        ActOn(Request("update_ext_network", c, s, n, [external |-> e, patch |-> p]),
              update_ext_network(store, store, c, s, n, e, p))

DeleteExternalNetwork(callers, spaces, names, externals) ==
    \E c \in callers, s \in spaces, n \in names, e \in externals, force \in BOOLEAN :
        ActOn(Request("delete_external_network", c, s, n, [external |-> e, force |-> force]),
              delete_external_network(store, c, s, n, e, force))

\* Every external network, and every subnet, the documents hold.
AllExternals(st) ==
    Flatten([i \in DOMAIN Flatten([s \in DOMAIN st |-> st[s].blocks]) |->
                Flatten([s \in DOMAIN st |-> st[s].blocks])[i].externals])
AllSubnets(st) == Flatten([i \in DOMAIN AllExternals(st) |-> AllExternals(st)[i].subnets])

CreateExternalSubnet(callers, spaces, names, externals, reqs) ==
    \E c \in callers, s \in spaces, n \in names, e \in externals, r \in reqs :
        /\ \A i \in DOMAIN AllExternals(store) :
               Len(AllExternals(store)[i].subnets) < MaxSubnets
        /\ ActOn(Request("create_external_subnet", c, s, n, [external |-> e, req |-> r]),
                 create_external_subnet(store, c, s, n, e, r))

UpdateExtSubnet(callers, spaces, names, externals, subnets, patches) ==
    \E c \in callers, s \in spaces, n \in names, e \in externals, v \in subnets, p \in patches :
        ActOn(Request("update_ext_subnet", c, s, n, [external |-> e, subnet |-> v, patch |-> p]),
              update_ext_subnet(store, store, c, s, n, e, v, p))

DeleteExternalSubnet(callers, spaces, names, externals, subnets) ==
    \E c \in callers, s \in spaces, n \in names, e \in externals, v \in subnets,
       force \in BOOLEAN :
        ActOn(Request("delete_external_subnet", c, s, n,
                      [external |-> e, subnet |-> v, force |-> force]),
              delete_external_subnet(store, c, s, n, e, v, force))

CreateExternalSubnetEndpoint(callers, spaces, names, externals, subnets, endpoints) ==
    \E c \in callers, s \in spaces, n \in names, e \in externals, v \in subnets,
       ep \in endpoints :
        /\ \A i \in DOMAIN AllSubnets(store) :
               Len(AllSubnets(store)[i].endpoints) < MaxEndpoints
        /\ ActOn(Request("create_external_subnet_endpoint", c, s, n,
                         [external |-> e, subnet |-> v, req |-> ep]),
                 create_external_subnet_endpoint(store, c, s, n, e, v, ep))

UpdateExternalSubnetEndpoints(callers, spaces, names, externals, subnets, lists) ==
    \E c \in callers, s \in spaces, n \in names, e \in externals, v \in subnets,
       eps \in lists :
        ActOn(Request("update_external_subnet_enpoints", c, s, n,
                      [external |-> e, subnet |-> v, req |-> eps]),
              update_external_subnet_enpoints(store, c, s, n, e, v, eps))

DeleteExternalSubnetEndpoints(callers, spaces, names, externals, subnets, lists) ==
    \E c \in callers, s \in spaces, n \in names, e \in externals, v \in subnets,
       req \in lists :
        ActOn(Request("delete_external_subnet_endpoints", c, s, n,
                      [external |-> e, subnet |-> v, req |-> req]),
              delete_external_subnet_endpoints(store, c, s, n, e, v, req))

UpdateExtEndpoint(callers, spaces, names, externals, subnets, endpoints, patches) ==
    \E c \in callers, s \in spaces, n \in names, e \in externals, v \in subnets,
       x \in endpoints, p \in patches :
        ActOn(Request("update_ext_endpoint", c, s, n,
                      [external |-> e, subnet |-> v, endpoint |-> x, patch |-> p]),
              update_ext_endpoint(store, store, c, s, n, e, v, x, p))

DeleteExternalSubnetEndpoint(callers, spaces, names, externals, subnets, endpoints) ==
    \E c \in callers, s \in spaces, n \in names, e \in externals, v \in subnets,
       x \in endpoints :
        ActOn(Request("delete_external_subnet_endpoint", c, s, n,
                      [external |-> e, subnet |-> v, endpoint |-> x]),
              delete_external_subnet_endpoint(store, c, s, n, e, v, x))

(***************************************************************************)
(* SpecBlocks: one space and the block operations on it.                   *)
(***************************************************************************)
BlockNames == {"blk1", "BLK1", "blk2"}
BlockCidrs == {LowHalf, HighHalf, LowQuarter, Pfx(1, 1), BadCidr}
BlockPatches ==
    {<<ReplaceItem("/name", n)>> : n \in BlockNames \cup {"-bad"}}
    \cup {<<ReplaceItem("/cidr", x)>> : x \in BlockCidrs}
    \cup {<<RemoveItem("/resv")>>}

NextBlocks ==
    \/ CreateSpace({Admin}, {"corp"})
    \/ CreateBlock({Admin, Alice}, {"corp"}, BlockNames, BlockCidrs)
    \/ UpdateBlock({Admin, Alice}, {"corp"}, BlockNames, BlockPatches)
    \/ DeleteBlock({Admin, Alice}, {"corp"}, BlockNames)

SpecBlocks == Init /\ [][NextBlocks]_vars

(***************************************************************************)
(* SpecBlockNets: two blocks of one space and what they hold.              *)
(***************************************************************************)
BySize(size, reverse, smallest) ==
    [cidr |-> NoneCidr, size |-> size, reverse_search |-> reverse, smallest_cidr |-> smallest]
ByCidr(cidr) ==
    [cidr |-> cidr, size |-> 0, reverse_search |-> FALSE, smallest_cidr |-> FALSE]
ExtReq(name, cidr, size) == [name |-> name, desc |-> "d", cidr |-> cidr, size |-> size]

NextBlockNets ==
    \/ CreateSpace({Admin}, {"corp"})
    \/ CreateBlock({Admin}, {"corp"}, {"blk1"}, {Whole})
    \/ UpdateBlock({Admin}, {"corp"}, {"blk1"},
                   {<<ReplaceItem("/cidr", x)>> : x \in {LowHalf, HighHalf}})
    \/ CreateBlockNet({Admin}, {"corp"}, {"blk1"}, {"vnetb"})
    \/ UpdateBlockVnets({Admin}, {"corp"}, {"blk1"}, {<<>>, <<"vneta", "vnetc">>})
    \/ DeleteBlockNets({Admin}, {"corp"}, {"blk1"}, {<<"vneta">>})
    \/ CreateBlockReservation({Alice}, {"corp"}, {"blk1"},
                              {BySize(2, FALSE, FALSE), ByCidr(Pfx(5, 2)), ByCidr(BadCidr)})
    \/ DeleteBlockReservations({Alice}, {"corp"}, {"blk1"}, {<<1>>})
    \/ DeleteBlockReservation({Alice}, {"corp"}, {"blk1"}, {2})
    \/ CreateExternalNetwork({Admin}, {"corp"}, {"blk1"},
                             {ExtReq("ext1", Quarter2, 0), ExtReq("ext1", NoneCidr, 2),
                              ExtReq("ext1", Pfx(3, 2), 0)})
    \/ UpdateExtNetwork({Admin}, {"corp"}, {"blk1"}, {"ext1"},
                        {<<ReplaceItem("/cidr", x)>> : x \in {LowHalf, Quarter4}})
    \/ DeleteExternalNetwork({Admin}, {"corp"}, {"blk1"}, {"ext1"})

SpecBlockNets == Init /\ [][NextBlockNets]_vars

\* What a block holds: the in-block prefixes of its vnets, its external
\* networks and its unsettled reservations.
Children(block) ==
    VnetCidrs(block) \o CidrsOf(block.externals) \o CidrsOf(Unsettled(block.resv))

\* C1: in every block the in-block vnet prefixes, the external CIDRs and the
\* CIDRs of unsettled reservations lie inside block.cidr and are pairwise
\* non-overlapping (I3).
C1_BlockCoverage ==
    \A s \in DOMAIN store : \A b \in DOMAIN store[s].blocks :
        LET block == store[s].blocks[b]
            ch == Children(block)
        IN  /\ \A i \in DOMAIN ch : Range(ch[i]) \subseteq Range(block.cidr)
            /\ \A i, j \in DOMAIN ch : i # j => Range(ch[i]) \cap Range(ch[j]) = {}

\* Every CIDR string a document holds.
StoredCidrs(st) ==
    UNION {UNION {{st[s].blocks[b].cidr}
                  \cup SeqSet(CidrsOf(st[s].blocks[b].resv))
                  \cup SeqSet(CidrsOf(st[s].blocks[b].externals))
                  \cup UNION {SeqSet(CidrsOf(st[s].blocks[b].externals[e].subnets)) :
                                e \in DOMAIN st[s].blocks[b].externals} :
                  b \in DOMAIN st[s].blocks} : s \in DOMAIN st}

\* C6: every CIDR string stored in a Space document is canonical: its base
\* address has no host bits set (I2).
C6_StoredCidrsCanonical == \A x \in StoredCidrs(store) : IsCanonical(x)

(***************************************************************************)
(* SpecVnets: the blocks of two spaces and the vnets attached to them.     *)
(***************************************************************************)
NextVnets ==
    \/ CreateSpace({Admin}, {"corp", "dev"})
    \/ CreateBlock({Admin}, {"corp", "dev"}, {"blk1", "blk2"}, {LowHalf, HighHalf})
    \/ CreateBlockNet({Admin}, {"corp", "dev"}, {"blk1", "blk2"}, {"vneta", "vnetb"})
    \/ UpdateBlockVnets({Admin}, {"corp"}, {"blk1", "blk2"},
                        {<<>>, <<"vnetb">>, <<"vneta", "vnetb">>, <<"vnetc", "vnetc">>})
    \/ DeleteBlockNets({Admin}, {"corp", "dev"}, {"blk1"}, {<<"vneta">>, <<"vnetb">>})

SpecVnets == Init /\ [][NextVnets]_vars

(***************************************************************************)
(* SpecExternals: one external network, its subnets and their endpoints.   *)
(***************************************************************************)
SubReq(name, cidr, size) == [name |-> name, desc |-> "d", cidr |-> cidr, size |-> size]
Endpoint(name, ip) == [name |-> name, desc |-> "d", ip |-> ip]

NextExternals ==
    \/ CreateSpace({Admin}, {"corp"})
    \/ CreateBlock({Admin}, {"corp"}, {"blk1"}, {Whole})
    \/ CreateExternalNetwork({Admin}, {"corp"}, {"blk1"}, {ExtReq("ext1", LowHalf, 0)})
    \/ UpdateExtNetwork({Admin}, {"corp"}, {"blk1"}, {"ext1", "EXT1"},
                        {<<ReplaceItem("/cidr", x)>> : x \in {HighHalf, LowQuarter}})
    \/ CreateExternalSubnet({Admin}, {"corp"}, {"blk1"}, {"ext1"},
                            {SubReq("sub1", NoneCidr, 1), SubReq("sub2", Quarter2, 0),
                             SubReq("sub2", Pfx(1, 2), 0)})
    \/ UpdateExtSubnet({Admin}, {"corp"}, {"blk1"}, {"ext1"}, {"sub1", "SUB1"},
                       {<<ReplaceItem("/cidr", Quarter2)>>, <<ReplaceItem("/name", "sub2")>>})
    \/ DeleteExternalSubnet({Admin}, {"corp"}, {"blk1"}, {"ext1"}, {"sub2"})
    \/ CreateExternalSubnetEndpoint({Admin}, {"corp"}, {"blk1"}, {"ext1"}, {"sub1"},
                                    {Endpoint("ep1", 0), Endpoint("ep2", -1), Endpoint("ep1", 4)})
    \/ UpdateExternalSubnetEndpoints({Admin}, {"corp"}, {"blk1"}, {"ext1"}, {"sub1"},
                                     {<<Endpoint("ep1", -1), Endpoint("ep2", 1)>>,
                                      <<Endpoint("ep1", 2), Endpoint("ep2", 2)>>})
    \/ DeleteExternalSubnetEndpoints({Admin}, {"corp"}, {"blk1"}, {"ext1"}, {"sub1"},
                                     {<<"ep2", "ep1">>})
    \/ UpdateExtEndpoint({Admin}, {"corp"}, {"blk1"}, {"ext1"}, {"sub1"}, {"ep1"},
                         {<<ReplaceItem("/ip", 1)>>, <<ReplaceItem("/name", "ep2")>>})
    \/ DeleteExternalSubnetEndpoint({Admin}, {"corp"}, {"blk1"}, {"ext1"}, {"sub1"}, {"ep2"})

SpecExternals == Init /\ [][NextExternals]_vars

(***************************************************************************)
(* Requests in flight. A handler suspends at its query and at its store    *)
(* call; what it computes between the two is local to the request.         *)
(***************************************************************************)
\* error_msg of the handler's cosmos_retry decorator.
error_msg(op) ==
    CASE op = "create_space" -> "Error creating space, please try again."
      [] op = "update_space" -> "Error updating space, please try again."
      [] op = "delete_space" -> "Error deleting space, please try again."
      [] op = "create_block" -> "Error creating block, please try again."
      [] op = "update_block" -> "Error updating block, please try again."
      [] op = "create_block_reservation" -> "Error creating cidr reservation, please try again."
      [] op = "delete_block_reservations" ->
            "Error removing block reservation(s), please try again."
      [] op = "delete_block_nets" -> "Error removing block network(s), please try again."
      [] op = "delete_external_subnet_endpoints" ->
            "Error removing external network subnet endpoints, please try again."
      [] OTHER -> "Error removing reservation, please try again."

RetrySix == 5 + 1

\* max_retry of the cosmos_retry decorators.
max_retry == 5

\* The handler a request names, run on what the request has read. sid and rid
\* are the ids uuid4() and shortuuid.uuid() would hand out.
Handle(st, vst, r, sid, rid) ==
    CASE r.op = "create_space" -> create_space(st, r.caller, r.body, sid)
      [] r.op = "update_space" -> update_space(st, vst, r.caller, r.space, r.body)
      [] r.op = "delete_space" -> delete_space(st, r.caller, r.space, r.body)
      [] r.op = "create_block" -> create_block(st, r.caller, r.space, r.body)
      [] r.op = "update_block" -> update_block(st, vst, r.caller, r.space, r.block, r.body)
      [] r.op = "create_block_reservation" ->
            create_block_reservation(st, r.caller, r.space, r.block, r.body, rid)
      [] r.op = "delete_block_reservations" ->
            delete_block_reservations(st, r.caller, r.space, r.block, r.body, Now(st))
      [] r.op = "delete_block_nets" -> delete_block_nets(st, r.caller, r.space, r.block, r.body)
      [] r.op = "delete_external_subnet_endpoints" ->
            delete_external_subnet_endpoints(st, r.caller, r.space, r.block,
                                             r.body.external, r.body.subnet, r.body.req)
      [] OTHER -> delete_block_reservation(st, r.caller, r.space, r.block, r.body, Now(st))

\* The handlers whose validators query the store themselves.
PatchOps == {"update_space", "update_block"}

\* The store call the request is about to make.
Result(p) ==
    Handle(proc[p].snap, proc[p].vsnap, proc[p].req, NewSpaceId(store), NewResvId(store))

\* The request as it runs alone on the serial documents.
SerialResult(p) ==
    Handle(serial, serial, proc[p].req, NewSpaceId(store), NewResvId(store))

WrittenId(w) == IF w.kind = "replace" THEN w.old.id ELSE w.doc.id

Present(st, id) == \E i \in DOMAIN st : st[i].id = id

InFlight(op) ==
    Cardinality({q \in Procs : proc[q].pc \in {"query", "write"} /\ proc[q].req.op = op})

\* A request arrives. Creating requests are admitted while what they create
\* stays within the bounds.
Start(p, reqs) ==
    \E r \in reqs :
        /\ proc[p].pc \in {"idle", "done"}
        /\ r.op = "create_space" => Len(store) + InFlight(r.op) < MaxSpaces
        /\ r.op = "create_block" =>
               \A i \in DOMAIN store : Len(store[i].blocks) + InFlight(r.op) < MaxBlocks
        /\ r.op = "create_block_reservation" =>
               \A i \in DOMAIN store : \A b \in DOMAIN store[i].blocks :
                   Len(store[i].blocks[b].resv) + InFlight(r.op) < MaxResv
        /\ proc' = [proc EXCEPT ![p] = [Idle EXCEPT !.pc = "query", !.req = r, !.tries = 1]]
        /\ UNCHANGED <<store, last, serial>>

\* space_query = await cosmos_query(...)
Query(p) ==
    /\ proc[p].pc = "query"
    /\ proc' = [proc EXCEPT ![p].pc = "write", ![p].snap = store, ![p].vsnap = store,
                            ![p].changed = {}]
    /\ UNCHANGED <<store, last, serial>>

\* A validator's own cosmos_query, issued after space_query.
Requery(p) ==
    /\ proc[p].pc = "write"
    /\ proc[p].req.op \in PatchOps
    /\ proc[p].vsnap # store
    /\ proc' = [proc EXCEPT ![p].vsnap = store]
    /\ UNCHANGED <<store, last, serial>>

\* The request ends. A store call that wrote gives the document a new _etag,
\* whatever it wrote.
Finish(p, code, detail, wrote) ==
    /\ last' = [op |-> proc[p].req.op, code |-> code, detail |-> detail,
                req |-> proc[p].req, out |-> Null]
    /\ proc' = [q \in Procs |->
                  IF q = p THEN [proc[p] EXCEPT !.pc = "done", !.code = code, !.detail = detail]
                  ELSE IF wrote /\ proc[q].pc = "write"
                       THEN [proc[q] EXCEPT !.changed = @ \cup {WrittenId(Result(p).write)}]
                  ELSE proc[q]]

AnswerAfterRetry(p) ==
    /\ proc[p].pc = "write"
    /\ Result(p).write.kind = "none"
    /\ IF proc[p].tries < max_retry
       THEN /\ proc' = [proc EXCEPT ![p].pc = "query", ![p].tries = @ + 1]
            /\ UNCHANGED <<store, last, serial>>
       ELSE /\ UNCHANGED <<store, serial>>
            /\ Finish(p, Result(p).code, Result(p).detail, FALSE)

\* The handler raises, or returns without a store call.
Answer(p) ==
    /\ proc[p].pc = "write"
    /\ Result(p).write.kind = "none"
    /\ UNCHANGED <<store, serial>>
    /\ Finish(p, Result(p).code, Result(p).detail, FALSE)

\* A replace that carries no condition.
PreconditionNone(p) == TRUE

\* cosmos_replace(old, new) succeeds when the document still carries old's
\* _etag; cosmos_upsert and cosmos_delete carry no condition.
Precondition(p) ==
    Result(p).write.kind = "replace" => WrittenId(Result(p).write) \notin proc[p].changed

Write(p) ==
    /\ proc[p].pc = "write"
    /\ Result(p).write.kind # "none"
    /\ Result(p).write.kind # "upsert" => Present(store, WrittenId(Result(p).write))
    /\ Precondition(p)
    /\ store' = Apply(store, Result(p).write)
    /\ serial' = Apply(serial, SerialResult(p).write)
    /\ Finish(p, Result(p).code, "", TRUE)

\* A precondition failure that is not counted: the handler runs again, with
\* as many attempts left as before.
ConflictUncounted(p) ==
    /\ proc[p].pc = "write"
    /\ Result(p).write.kind = "replace"
    /\ Present(store, WrittenId(Result(p).write))
    /\ ~Precondition(p)
    /\ proc[p].tries < max_retry
    /\ proc' = [proc EXCEPT ![p].pc = "query"]
    /\ UNCHANGED <<store, last, serial>>

\* cosmos_retry: a precondition failure with attempts left; the handler runs again.
Conflict(p) ==
    /\ proc[p].pc = "write"
    /\ Result(p).write.kind = "replace"
    /\ Present(store, WrittenId(Result(p).write))
    /\ ~Precondition(p)
    /\ proc[p].tries < max_retry
    /\ proc' = [proc EXCEPT ![p].pc = "query", ![p].tries = @ + 1, ![p].conflicts = @ + 1]
    /\ UNCHANGED <<store, last, serial>>

\* cosmos_retry: a precondition failure on the last attempt.
Exhaust(p) ==
    /\ proc[p].pc = "write"
    /\ Result(p).write.kind = "replace"
    /\ Present(store, WrittenId(Result(p).write))
    /\ ~Precondition(p)
    /\ ~(proc[p].tries < max_retry)
    /\ UNCHANGED <<store, serial>>
    /\ last' = [op |-> proc[p].req.op, code |-> 500,
                detail |-> error_msg(proc[p].req.op), req |-> proc[p].req, out |-> Null]
    /\ proc' = [proc EXCEPT ![p].pc = "done", ![p].conflicts = @ + 1, ![p].code = 500,
                            ![p].detail = error_msg(proc[p].req.op)]

\* The store finds no document of that id: not a precondition failure, the
\* request ends with the store's error.
Missing(p) ==
    /\ proc[p].pc = "write"
    /\ Result(p).write.kind \in {"replace", "delete"}
    /\ ~Present(store, WrittenId(Result(p).write))
    /\ UNCHANGED <<store, serial>>
    /\ Finish(p, 500, "", FALSE)

\* The transport cancels the request while it waits for the store: the
\* handler is abandoned at its await, before its store call has run.
Cancel(p) ==
    /\ proc[p].pc \in {"query", "write"}
    /\ proc' = [proc EXCEPT ![p].pc = "done", ![p].code = 499, ![p].detail = "cancelled"]
    /\ UNCHANGED <<store, last, serial>>

(***************************************************************************)
(* SpecSpaces: two requests at a time creating and renaming spaces.        *)
(***************************************************************************)
SpaceRequests ==
    {Request("create_space", Admin, "", "", [name |-> n, desc |-> "d"]) :
        n \in {"corp", "CORP", "dev"}}
    \cup {Request("update_space", Admin, "dev", "", <<ReplaceItem("/name", n)>>) :
            n \in {"corp", "DEV"}}

NextSpaces ==
    \E p \in Procs :
        \/ Start(p, SpaceRequests)
        \/ Query(p)
        \/ Requery(p)
        \/ Answer(p)
        \/ Write(p)
        \/ Conflict(p)

SpecSpaces == Init /\ [][NextSpaces]_vars

(***************************************************************************)
(* SpecOCC: two requests at a time on one space: its blocks, their         *)
(* reservations, and the space's deletion.                                 *)
(***************************************************************************)
OneSpace == <<[id |-> 1, name |-> "corp", desc |-> "d", blocks |-> <<>>]>>

InitOCC ==
    /\ store = OneSpace
    /\ last = NoResponse
    /\ proc = [p \in Procs |-> Idle]
    /\ serial = OneSpace

OCCRequests ==
    {Request("create_block", Admin, "corp", "", [name |-> "blk1", cidr |-> Whole]),
     Request("create_block_reservation", Alice, "corp", "blk1", BySize(2, FALSE, FALSE)),
     Request("delete_block_reservations", Alice, "corp", "blk1", <<>>),
     Request("delete_block_reservations", Alice, "corp", "blk1", <<1>>),
     Request("delete_space", Admin, "corp", "", FALSE)}

NextOCC ==
    \E p \in Procs :
        \/ Start(p, OCCRequests)
        \/ Query(p)
        \/ Answer(p)
        \/ Write(p)
        \/ Conflict(p)
        \/ Exhaust(p)
        \/ Missing(p)

SpecOCC == InitOCC /\ [][NextOCC]_vars

(***************************************************************************)
(* SpecRetry: reservation requests on one block losing to each other.      *)
(***************************************************************************)
OneBlock ==
    <<[id |-> 1, name |-> "corp", desc |-> "d",
       blocks |-> <<[name |-> "blk1", cidr |-> Whole, vnets |-> <<>>,
                     externals |-> <<>>, resv |-> <<>>]>>]>>

InitRetry ==
    /\ store = OneBlock
    /\ last = NoResponse
    /\ proc = [p \in Procs |-> Idle]
    /\ serial = OneBlock

RetryRequests ==
    {Request("create_block_reservation", Alice, "corp", "blk1", BySize(2, FALSE, FALSE)),
     Request("delete_block_reservations", Alice, "corp", "blk1", <<>>),
     Request("delete_block_reservation", Bob, "corp", "blk1", 1)}

NextRetry ==
    \E p \in Procs :
        \/ Start(p, RetryRequests)
        \/ Query(p)
        \/ Answer(p)
        \/ Write(p)
        \/ Conflict(p)
        \/ Exhaust(p)

SpecRetry == InitRetry /\ [][NextRetry]_vars

(***************************************************************************)
(* SpecErrors: requests on one block that are refused, some of them only   *)
(* on the attempt after a lost store call.                                 *)
(***************************************************************************)
ErrorRequests ==
    {Request("create_block_reservation", Alice, "corp", "blk1", BySize(1, FALSE, FALSE)),
     Request("create_block_reservation", Alice, "corp", "blk1", ByCidr(HighHalf)),
     Request("update_block", Admin, "corp", "blk1", <<ReplaceItem("/cidr", LowHalf)>>),
     Request("delete_block_reservation", Bob, "corp", "blk1", 1)}

NextErrors ==
    \E p \in Procs :
        \/ Start(p, ErrorRequests)
        \/ Query(p)
        \/ Requery(p)
        \/ Answer(p)
        \/ Write(p)
        \/ Conflict(p)
        \/ Exhaust(p)

SpecErrors == InitRetry /\ [][NextErrors]_vars

(***************************************************************************)
(* SpecAlloc: reservations by size in one block, made and settled.         *)
(***************************************************************************)
Sizes == 0 .. AddrBits

NextAlloc ==
    \/ CreateBlockReservation({Alice}, {"corp"}, {"blk1"},
                              {BySize(n, r, m) : n \in Sizes, r \in BOOLEAN, m \in BOOLEAN})
    \/ DeleteBlockReservations({Alice}, {"corp"}, {"blk1"}, {<<1>>, <<2, 1>>})
    \/ DeleteBlockReservation({Alice}, {"corp"}, {"blk1"}, {2})

SpecAlloc == InitRetry /\ [][NextAlloc]_vars

(***************************************************************************)
(* SpecMulti: reservations over a list of blocks in a space of two blocks. *)
(***************************************************************************)
TwoBlocks ==
    <<[id |-> 1, name |-> "corp", desc |-> "d",
       blocks |-> <<[name |-> "blk1", cidr |-> LowHalf, vnets |-> <<>>,
                     externals |-> <<>>, resv |-> <<>>],
                    [name |-> "blk2", cidr |-> HighHalf, vnets |-> <<>>,
                     externals |-> <<>>, resv |-> <<>>]>>]>>

InitMulti ==
    /\ store = TwoBlocks
    /\ last = NoResponse
    /\ proc = [p \in Procs |-> Idle]
    /\ serial = TwoBlocks

InBlocks(blocks, size, reverse, smallest) ==
    [blocks |-> blocks, size |-> size, reverse_search |-> reverse, smallest_cidr |-> smallest]

BlockLists == {<<>>, <<"blk1", "blk2">>, <<"blk2", "blk1">>, <<"blk2", "blk3">>}

NextMulti ==
    \/ CreateMultiBlockReservation({Alice}, {"corp"},
           {InBlocks(l, n, FALSE, m) : l \in BlockLists, n \in {1, 2}, m \in BOOLEAN})
    \/ DeleteBlockReservation({Alice}, {"corp"}, {"blk1", "blk2"}, {1, 2})

SpecMulti == InitMulti /\ [][NextMulti]_vars

(***************************************************************************)
(* SpecSettle: reservations of two users in one block, settled by their    *)
(* owners, by each other and by an admin.                                  *)
(***************************************************************************)
NextSettle ==
    \/ CreateBlockReservation({Alice, Bob}, {"corp"}, {"blk1"},
                              {BySize(1, FALSE, FALSE), BySize(2, TRUE, FALSE)})
    \/ CreateMultiBlockReservation({Alice}, {"corp"}, {InBlocks(<<"blk1">>, 2, FALSE, FALSE)})
    \/ DeleteBlockReservations({Alice, Bob, Admin}, {"corp"}, {"blk1"},
                               {<<1>>, <<2>>, <<2, 1>>, <<1, 3>>})
    \/ DeleteBlockReservation({Alice, Bob, Admin}, {"corp"}, {"blk1"}, {1, 2})

SpecSettle == InitRetry /\ [][NextSettle]_vars

(***************************************************************************)
(* SpecReads: the reservations of two users, read by them and by an admin. *)
(***************************************************************************)
Readers == {Alice, Bob, Admin}

NextReads ==
    \/ CreateBlockReservation({Alice, Bob}, {"corp"}, {"blk1"}, {BySize(1, FALSE, FALSE)})
    \/ DeleteBlockReservation({Alice, Admin}, {"corp"}, {"blk1"}, {1, 2})
    \/ CreateBlockNet({Admin}, {"corp"}, {"blk1"}, {"vnetc"})
    \/ GetSpaces(Readers, {Flags(e, u) : e, u \in BOOLEAN})
    \/ GetSpace(Readers, {"corp"}, {Flags(e, u) : e, u \in BOOLEAN})
    \/ GetBlocks(Readers, {"corp"}, {Flags(e, u) : e, u \in BOOLEAN})
    \/ GetBlock(Readers, {"corp"}, {"blk1"}, {Flags(e, u) : e, u \in BOOLEAN})
    \/ GetMultiBlockReservations(Readers, {"corp"}, BOOLEAN)
    \/ GetBlockReservations(Readers, {"corp"}, {"blk1"}, BOOLEAN)
    \/ GetBlockReservation(Readers, {"corp"}, {"blk1"}, {1, 2})

SpecReads == InitRetry /\ [][NextReads]_vars

(***************************************************************************)
(* SpecGate: a space that holds one of everything, and two users who are   *)
(* no admins calling every write operation on it.                          *)
(***************************************************************************)
\* The document an admin has built: a block with a vnet, an external
\* network, a subnet in it and an endpoint in the subnet.
Populated ==
    LET s1 == Apply(<<>>, create_space(<<>>, Admin, [name |-> "corp", desc |-> "d"], 1).write)
        s2 == Apply(s1, create_block(s1, Admin, "corp", [name |-> "blk1", cidr |-> Whole]).write)
        s3 == Apply(s2, create_block_net(s2, Admin, "corp", "blk1", "vneta").write)
        s4 == Apply(s3, create_external_network(s3, Admin, "corp", "blk1",
                                                ExtReq("ext1", HighHalf, 0)).write)
        s5 == Apply(s4, create_external_subnet(s4, Admin, "corp", "blk1", "ext1",
                                               SubReq("sub1", HighHalf, 0)).write)
    IN  Apply(s5, create_external_subnet_endpoint(s5, Admin, "corp", "blk1", "ext1", "sub1",
                                                  Endpoint("ep1", 5)).write)

InitGate ==
    /\ store = Populated
    /\ last = NoResponse
    /\ proc = [p \in Procs |-> Idle]
    /\ serial = Populated

Users == {Alice, Bob}

NextGate ==
    \/ CreateSpace({Alice}, {"dev"})
    \/ UpdateSpace({Alice}, {"corp"}, {<<ReplaceItem("/name", "dev")>>})
    \/ DeleteSpace({Alice}, {"corp"})
    \/ CreateBlock({Alice}, {"corp"}, {"blk2"}, {Whole})
    \/ UpdateBlock({Alice}, {"corp"}, {"blk1"}, {<<ReplaceItem("/name", "blk2")>>})
    \/ DeleteBlock({Alice}, {"corp"}, {"blk1"})
    \/ CreateBlockNet({Alice}, {"corp"}, {"blk1"}, {"vnetb"})
    \/ UpdateBlockVnets({Alice}, {"corp"}, {"blk1"}, {<<>>})
    \/ DeleteBlockNets({Alice}, {"corp"}, {"blk1"}, {<<"vneta">>})
    \/ CreateExternalNetwork({Alice}, {"corp"}, {"blk1"}, {ExtReq("ext2", NoneCidr, 3)})
    \/ UpdateExtNetwork({Alice}, {"corp"}, {"blk1"}, {"ext1"}, {<<ReplaceItem("/name", "ext2")>>})
    \/ DeleteExternalNetwork({Alice}, {"corp"}, {"blk1"}, {"ext1"})
    \/ CreateExternalSubnet({Alice}, {"corp"}, {"blk1"}, {"ext1"}, {SubReq("sub2", NoneCidr, 2)})
    \/ UpdateExtSubnet({Alice}, {"corp"}, {"blk1"}, {"ext1"}, {"sub1"},
                       {<<ReplaceItem("/name", "sub2")>>})
    \/ DeleteExternalSubnet({Alice}, {"corp"}, {"blk1"}, {"ext1"}, {"sub1"})
    \/ CreateExternalSubnetEndpoint({Alice}, {"corp"}, {"blk1"}, {"ext1"}, {"sub1"},
                                    {Endpoint("ep2", -1)})
    \/ UpdateExternalSubnetEndpoints({Alice}, {"corp"}, {"blk1"}, {"ext1"}, {"sub1"}, {<<>>})
    \/ DeleteExternalSubnetEndpoints({Alice}, {"corp"}, {"blk1"}, {"ext1"}, {"sub1"},
                                     {<<"ep1">>})
    \/ UpdateExtEndpoint({Alice}, {"corp"}, {"blk1"}, {"ext1"}, {"sub1"}, {"ep1"},
                         {<<ReplaceItem("/name", "ep2")>>})
    \/ DeleteExternalSubnetEndpoint({Alice}, {"corp"}, {"blk1"}, {"ext1"}, {"sub1"}, {"ep1"})
    \/ CreateBlockReservation(Users, {"corp"}, {"blk1"}, {BySize(3, FALSE, FALSE)})
    \/ CreateMultiBlockReservation({Bob}, {"corp"}, {InBlocks(<<"blk1">>, 3, TRUE, FALSE)})
    \/ DeleteBlockReservations(Users, {"corp"}, {"blk1"}, {<<1>>, <<2, 1>>})
    \/ DeleteBlockReservation(Users, {"corp"}, {"blk1"}, {2})

SpecGate == InitGate /\ [][NextGate]_vars

(***************************************************************************)
(* SpecPatch: PATCH requests of an admin on the space, the block, the      *)
(* external network, the subnet and the endpoint of the populated space.   *)
(***************************************************************************)
AddItem(path, value) == [op |-> "add", path |-> path, value |-> value]

\* One-item patches of the given items, and the given longer patches.
Patches(items, more) == {<<x>> : x \in items} \cup more

NextPatch ==
    \/ UpdateSpace({Admin}, {"corp"},
           Patches({ReplaceItem("/desc", "e"), ReplaceItem("/blocks", <<>>),
                    AddItem("/name", "dev")},
                   {<<ReplaceItem("/id", 7), ReplaceItem("/name", "CORP")>>}))
    \/ UpdateBlock({Admin}, {"corp"}, {"blk1"},
           Patches({ReplaceItem("/cidr", Whole), ReplaceItem("/resv", <<>>),
                    AddItem("/name", "blk3"), RemoveItem("/cidr")},
                   {<<ReplaceItem("/vnets", <<>>), ReplaceItem("/name", "BLK1")>>}))
    \/ UpdateExtNetwork({Admin}, {"corp"}, {"blk1"}, {"ext1"},
           Patches({ReplaceItem("/cidr", HighHalf), ReplaceItem("/subnets", <<>>),
                    RemoveItem("/desc")},
                   {<<AddItem("/cidr", Whole), ReplaceItem("/desc", "e")>>}))
    \/ UpdateExtSubnet({Admin}, {"corp"}, {"blk1"}, {"ext1"}, {"sub1"},
           Patches({ReplaceItem("/name", "SUB1"), ReplaceItem("/endpoints", <<>>),
                    AddItem("/name", "sub2")},
                   {<<RemoveItem("/cidr"), ReplaceItem("/cidr", HighHalf)>>}))
    \/ UpdateExtEndpoint({Admin}, {"corp"}, {"blk1"}, {"ext1"}, {"sub1"}, {"ep1"},
           Patches({ReplaceItem("/ip", 6), RemoveItem("/ip"), AddItem("/desc", "g")},
                   {<<AddItem("/ip", 7), ReplaceItem("/desc", "e")>>}))

SpecPatch == InitGate /\ [][NextPatch]_vars

(***************************************************************************)
(* SpecResize: replace /cidr on a block, its external network and the      *)
(* subnet of that network, each named in lower and in upper case.          *)
(***************************************************************************)
\* The document an admin has built: a block on the low half, an external
\* network in it, a subnet in the network and an endpoint in the subnet.
Nested ==
    LET s1 == Apply(<<>>, create_space(<<>>, Admin, [name |-> "corp", desc |-> "d"], 1).write)
        s2 == Apply(s1, create_block(s1, Admin, "corp", [name |-> "blk1", cidr |-> LowHalf]).write)
        s3 == Apply(s2, create_external_network(s2, Admin, "corp", "blk1",
                                                ExtReq("ext1", LowQuarter, 0)).write)
        s4 == Apply(s3, create_external_subnet(s3, Admin, "corp", "blk1", "ext1",
                                               SubReq("sub1", Pfx(0, 3), 0)).write)
    IN  Apply(s4, create_external_subnet_endpoint(s4, Admin, "corp", "blk1", "ext1", "sub1",
                                                  Endpoint("ep1", 0)).write)

InitResize ==
    /\ store = Nested
    /\ last = NoResponse
    /\ proc = [p \in Procs |-> Idle]
    /\ serial = Nested

NextResize ==
    \/ UpdateBlock({Admin}, {"corp"}, {"blk1", "BLK1"},
                   {<<ReplaceItem("/cidr", x)>> : x \in {LowHalf, HighHalf, Whole}})
    \/ UpdateExtNetwork({Admin}, {"corp"}, {"blk1"}, {"ext1", "EXT1"},
                        {<<ReplaceItem("/cidr", x)>> : x \in {LowQuarter, Quarter2, LowHalf}})
    \/ UpdateExtSubnet({Admin}, {"corp"}, {"blk1"}, {"ext1"}, {"sub1", "SUB1"},
                       {<<ReplaceItem("/cidr", x)>> : x \in {Pfx(0, 3), Pfx(1, 3), LowQuarter}})
    \/ CreateBlockReservation({Alice}, {"corp"}, {"blk1"}, {BySize(2, FALSE, FALSE)})
    \/ DeleteBlockReservation({Alice}, {"corp"}, {"blk1"}, {1})

SpecResize == InitResize /\ [][NextResize]_vars

AllBlocks(st) == Flatten([i \in DOMAIN st |-> st[i].blocks])

\* C2: the blocks of one space have pairwise non-overlapping CIDRs (I4).
C2_BlocksDisjoint ==
    \A s \in DOMAIN store : \A i, j \in DOMAIN store[s].blocks :
        i # j => Range(store[s].blocks[i].cidr) \cap Range(store[s].blocks[j].cidr) = {}

\* C8: block names are unique within their space.
C8_BlockNamesUnique ==
    \A s \in DOMAIN store : \A i, j \in DOMAIN store[s].blocks :
        i # j => Lower(store[s].blocks[i].name) # Lower(store[s].blocks[j].name)

\* The vnet ids a block references, as the inventory resolves them.
VnetRefs(block) == {Lower(block.vnets[k].id) : k \in DOMAIN block.vnets}

\* C5: a vnet id is referenced by at most one block over all blocks of all
\* spaces (I7).
C5_VnetInOneBlock ==
    \A s, t \in DOMAIN store : \A i \in DOMAIN store[s].blocks, j \in DOMAIN store[t].blocks :
        <<s, i>> # <<t, j>> => VnetRefs(store[s].blocks[i]) \cap VnetRefs(store[t].blocks[j]) = {}

\* C3: the subnets of every external network are pairwise non-overlapping
\* and each subnet CIDR is contained in the external network's CIDR (I5).
C3_SubnetsInExternal ==
    \A x \in DOMAIN AllExternals(store) :
        LET ext == AllExternals(store)[x]
        IN  /\ \A i \in DOMAIN ext.subnets :
                   Range(ext.subnets[i].cidr) \subseteq Range(ext.cidr)
            /\ \A i, j \in DOMAIN ext.subnets :
                   i # j => Range(ext.subnets[i].cidr) \cap Range(ext.subnets[j].cidr) = {}

\* C4: the endpoints of every external subnet have pairwise distinct IPs and
\* every endpoint IP lies inside the subnet's CIDR (I6).
C4_EndpointsInSubnet ==
    \A x \in DOMAIN AllSubnets(store) :
        LET sub == AllSubnets(store)[x]
        IN  /\ \A i \in DOMAIN sub.endpoints : sub.endpoints[i].ip \in Range(sub.cidr)
            /\ \A i, j \in DOMAIN sub.endpoints :
                   i # j => sub.endpoints[i].ip # sub.endpoints[j].ip

\* C7: space names are unique case-insensitively in every reachable state,
\* also when two requests for the same name read the spaces before either writes.
C7_SpaceNamesUnique ==
    \A i, j \in DOMAIN store : i # j => Lower(store[i].name) # Lower(store[j].name)

\* C9: every write is linearizable: the documents are what the committed
\* requests produce when each runs alone, in the order of their store calls.
C9_Linearizable == store = serial

\* C10: a handler runs at most 5 times for one request: each run but the
\* first follows a precondition failure, the fifth failure ends the request
\* with status 500 and the handler's error_msg, and there is no sixth run.
C10_RetryBudget ==
    \A p \in Procs :
        /\ proc[p].tries <= 5
        /\ proc[p].conflicts <= 5
        /\ proc[p].pc \in {"query", "write"} => proc[p].tries = proc[p].conflicts + 1
        /\ proc[p].pc = "done" /\ proc[p].conflicts = 5 =>
               /\ proc[p].tries = 5
               /\ proc[p].code = 500
               /\ proc[p].detail = error_msg(proc[p].req.op)
        /\ proc[p].pc = "done" /\ proc[p].detail = error_msg(proc[p].req.op) =>
               proc[p].conflicts = 5

\* A request whose fifth run lost too.
C10_Exhausted ==
    \E p \in Procs :
        /\ proc[p].pc = "done"
        /\ proc[p].req.op = "create_block_reservation"
        /\ proc[p].tries = 5
        /\ proc[p].conflicts = 5
        /\ proc[p].code = 500
        /\ proc[p].detail = "Error creating cidr reservation, please try again."

ErrorCodes == {400, 403, 409, 500}

\* C11: an attempt in which the handler raises a validation, permission,
\* CIDR-conflict or allocator error is the request's last: the request ends
\* with that error and the handler is not run again; an attempt is followed
\* by another only after a store call that failed on its precondition.
C11_ErrorsEndRequest ==
    [][\A p \in Procs :
          /\ (proc[p].pc = "write" /\ Result(p).write.kind = "none"
                                   /\ Result(p).code \in ErrorCodes) =>
                 /\ proc'[p].tries = proc[p].tries
                 /\ proc'[p].pc \in {"write", "done"}
                 /\ proc'[p].pc = "done" =>
                        /\ proc'[p].code = Result(p).code
                        /\ proc'[p].detail = Result(p).detail
          /\ (proc[p].pc = "write" /\ proc'[p].tries = proc[p].tries + 1) =>
                 /\ Result(p).write.kind = "replace"
                 /\ ~Precondition(p)]_vars

\* A PATCH of the block's CIDR refused by its validator on the attempt after a
\* precondition failure.
C11_RefusedAfterConflict ==
    \E p \in Procs :
        /\ proc[p].pc = "done"
        /\ proc[p].req.op = "update_block"
        /\ proc[p].code = 400
        /\ proc[p].conflicts = 1
        /\ proc[p].tries = 2

\* The block of a space that holds one.
OnlyBlock(st) == st[1].blocks[1]

\* The free set's coalesced prefixes a request of this size can be carved from.
Eligible(block, size) == {c \in MaximalCidrs(AvailableSet(block)) : c.len <= size}

LowestOf(S) == CHOOSE c \in S : \A d \in S : First(c) <= First(d)
HighestOf(S) == CHOOSE c \in S : \A d \in S : First(d) <= First(c)
FirstSubnet(c, size) == [ip |-> First(c), len |-> size]
LastSubnet(c, size) == [ip |-> Last(c) + 1 - 2^(AddrBits - size), len |-> size]

\* The step is a by-size reservation request on the block with these flags.
BySizeStep(smallest) ==
    /\ last'.op = "create_block_reservation"
    /\ last'.req.body.cidr = NoneCidr
    /\ last'.req.body.smallest_cidr = smallest

\* The step answered 201 with a reservation of this CIDR, appended to the block.
Reserved(cidr) ==
    /\ last'.code = 201
    /\ last'.out.resv.cidr = cidr
    /\ OnlyBlock(store').resv = Append(OnlyBlock(store).resv, last'.out.resv)

\* C12: first-fit. With smallest_cidr false and a free prefix no longer than
\* size, the reservation has length size and is the first size-subnet of the
\* lowest eligible free prefix, or with reverse_search the last size-subnet of
\* the highest one.
C12_FirstFit ==
    [][LET size == last'.req.body.size
           fits == Eligible(OnlyBlock(store), size)
       IN  (BySizeStep(FALSE) /\ fits # {}) =>
               IF last'.req.body.reverse_search
               THEN Reserved(LastSubnet(HighestOf(fits), size))
               ELSE Reserved(FirstSubnet(LowestOf(fits), size))]_vars

\* A first-fit reservation carved from a free prefix longer than the block and
\* shorter than the size, from the top.
C12_CarvedFromTop ==
    /\ last.op = "create_block_reservation"
    /\ last.code = 201
    /\ last.req.body.cidr = NoneCidr
    /\ ~last.req.body.smallest_cidr
    /\ last.req.body.reverse_search
    /\ last.req.body.size = AddrBits
    /\ Len(OnlyBlock(store).resv) = 2
    /\ last.out.resv.cidr.ip = 2^AddrBits - 1

C14_Unavailable ==
    [][(/\ last'.op = "create_block_reservation"
        /\ last'.req.body.cidr = NoneCidr
        /\ Eligible(OnlyBlock(store), last'.req.body.size) = {}) =>
           /\ last'.code = 500
           /\ last'.detail = "Network of requested size unavailable in target block."
           /\ store' = store]_vars

BlockNamed(st, name) ==
    LET blocks == st[1].blocks
    IN  blocks[CHOOSE i \in DOMAIN blocks : blocks[i].name = name]

\* C15: a reservation over a list of blocks is made in the first listed block
\* with a free prefix no longer than size: it is appended to that block, the
\* response names that block, every other block stays as it was, and the
\* request is refused with 500 only when no listed block has such a prefix.
C15_FirstBlockThatFits ==
    [][LET req == last'.req.body
           names == {store[1].blocks[i].name : i \in DOMAIN store[1].blocks}
           fits(i) == Eligible(BlockNamed(store, req.blocks[i]), req.size) # {}
           hits == {i \in DOMAIN req.blocks : fits(i)}
           first == CHOOSE i \in hits : \A j \in hits : i <= j
           name == req.blocks[first]
       IN  (last'.op = "create_multi_block_reservation" /\ SeqSet(req.blocks) \subseteq names) =>
               IF hits = {}
               THEN last'.code = 500 /\ store' = store
               ELSE /\ last'.code = 201
                    /\ last'.out.block = name
                    /\ last'.out.resv.cidr.len = req.size
                    /\ Range(last'.out.resv.cidr) \subseteq AvailableSet(BlockNamed(store, name))
                    /\ BlockNamed(store', name).resv =
                           Append(BlockNamed(store, name).resv, last'.out.resv)
                    /\ \A n \in names \ {name} : BlockNamed(store', n) = BlockNamed(store, n)]_vars

\* A reservation made in the second listed block, the first being full.
C15_SecondBlockTaken ==
    /\ last.op = "create_multi_block_reservation"
    /\ last.code = 201
    /\ last.req.body.blocks = <<"blk2", "blk1">>
    /\ last.out.block = "blk1"
    /\ Unsettled(BlockNamed(store, "blk2").resv) # <<>>

\* The block a request's path names, in the store the request found.
TargetBlock(st, req) ==
    LET blocks == SpaceQuery(st, req.space)[1].blocks
    IN  blocks[FindByName(blocks, req.block)]

HasTarget(st, req) ==
    /\ SpaceQuery(st, req.space) # <<>>
    /\ FindByName(SpaceQuery(st, req.space)[1].blocks, req.block) # 0

\* What the explicit-CIDR mode asks of a cidr: canonical, inside the block,
\* disjoint from everything the block holds.
ExplicitOk(block, cidr) ==
    /\ Parses(cidr)
    /\ IsCanonical(cidr)
    /\ Range(cidr) \subseteq Range(block.cidr)
    /\ \A i \in DOMAIN Children(block) : Range(cidr) \cap Range(Children(block)[i]) = {}

\* C16: a reservation create or an external-network create that names a cidr
\* is accepted only if the cidr is canonical, lies inside the block's CIDR and
\* is disjoint from the block's in-block vnet prefixes, externals and
\* unsettled reservations; otherwise it is refused and the store is unchanged.
C16_ExplicitCidrChecked ==
    [][(/\ last'.op \in {"create_block_reservation", "create_external_network"}
        /\ last'.req.body.cidr # NoneCidr
        /\ HasTarget(store, last'.req)
        /\ ~ExplicitOk(TargetBlock(store, last'.req), last'.req.body.cidr)) =>
           /\ last'.code \notin {200, 201}
           /\ store' = store]_vars

DeleteOps == {"delete_block_reservation", "delete_block_reservations"}

\* The ids a delete request names.
NamedIds(req) == IF req.op = "delete_block_reservation" THEN {req.body} ELSE SeqSet(req.body)

\* C17: a successful delete of an unsettled reservation, by id or by list,
\* keeps the record in resv with its id and cidr, stamps settledOn with a
\* time, sets settledBy to the caller and status to cancelledByUser; resv
\* does not get shorter.
C17_SoftSettle ==
    [][(last'.op \in DeleteOps /\ last'.code = 204 /\ HasTarget(store, last'.req)) =>
          LET old == TargetBlock(store, last'.req).resv
              new == TargetBlock(store', last'.req).resv
          IN  /\ Len(new) >= Len(old)
              /\ \A k \in DOMAIN old :
                    (old[k].id \in NamedIds(last'.req) /\ old[k].settledOn = 0) =>
                        /\ new[k].id = old[k].id
                        /\ new[k].cidr = old[k].cidr
                        /\ new[k].settledOn # 0
                        /\ new[k].settledBy = last'.req.caller.user
                        /\ new[k].status = "cancelledByUser"]_vars

\* A list delete by the admin has settled two reservations of other users.
C17_BothSettled ==
    /\ last.op = "delete_block_reservations"
    /\ last.code = 204
    /\ last.req.body = <<2, 1>>
    /\ last.req.caller = Admin
    /\ LET resv == OnlyBlock(store).resv
       IN  /\ Len(resv) = 2
           /\ \A k \in DOMAIN resv :
                 /\ resv[k].settledOn = 1
                 /\ resv[k].settledBy = "root"
                 /\ resv[k].createdBy # "root"
                 /\ resv[k].status = "cancelledByUser"

CreateOps == {"create_block_reservation", "create_multi_block_reservation"}

\* The caller may delete every reservation the request names.
MayDelete(resv, req) ==
    /\ \A id \in NamedIds(req) : \E k \in DOMAIN resv : resv[k].id = id
    /\ req.op = "delete_block_reservations" => Cardinality(SeqSet(req.body)) = Len(req.body)
    /\ \A k \in DOMAIN resv :
          resv[k].id \in NamedIds(req) => (req.caller.admin \/ resv[k].createdBy = req.caller.user)

\* C18: a reservation is created in status wait with settledOn null; once
\* settledOn is set, no create or delete of reservations, by the owner or by
\* an admin, changes the record; and a delete of reservations that are all
\* settled succeeds and leaves the records as they were.
C18_SettledIsFinal ==
    [][HasTarget(store, last'.req) =>
          LET old == TargetBlock(store, last'.req).resv
              new == TargetBlock(store', last'.req).resv
          IN  /\ (last'.op \in CreateOps /\ last'.code = 201) =>
                    /\ new = Append(old, last'.out.resv)
                    /\ last'.out.resv.status = "wait"
                    /\ last'.out.resv.settledOn = 0
                    /\ last'.out.resv.settledBy = Null
              /\ \A k \in DOMAIN old :
                    old[k].settledOn # 0 => (k \in DOMAIN new /\ new[k] = old[k])
              /\ (/\ last'.op \in DeleteOps
                  /\ MayDelete(old, last'.req)
                  /\ \A k \in DOMAIN old :
                        old[k].id \in NamedIds(last'.req) => old[k].settledOn # 0) =>
                    (last'.code = 204 /\ new = old)]_vars

\* The admin has deleted a reservation that its owner had settled before.
C18_DeletedTwice ==
    /\ last.op = "delete_block_reservation"
    /\ last.code = 204
    /\ last.req.caller = Admin
    /\ \E k \in DOMAIN OnlyBlock(store).resv :
          LET r == OnlyBlock(store).resv[k]
          IN  /\ r.id = last.req.body
              /\ r.settledOn # 0
              /\ r.settledBy = "alice"
              /\ r.status = "cancelledByUser"

ReadOps ==
    {"get_spaces", "get_space", "get_blocks", "get_block",
     "get_multi_block_reservations", "get_block_reservations", "get_block_reservation"}

\* The answer of a read handler to a request.
ReadOn(st, r) ==
    CASE r.op = "get_spaces" -> get_spaces(st, r.caller, r.body.expand, r.body.utilization)
      [] r.op = "get_space" -> get_space(st, r.caller, r.space, r.body.expand, r.body.utilization)
      [] r.op = "get_blocks" -> get_blocks(st, r.caller, r.space, r.body.expand, r.body.utilization)
      [] r.op = "get_block" ->
            get_block(st, r.caller, r.space, r.block, r.body.expand, r.body.utilization)
      [] r.op = "get_multi_block_reservations" ->
            get_multi_block_reservations(st, r.caller, r.space, r.body)
      [] r.op = "get_block_reservations" ->
            get_block_reservations(st, r.caller, r.space, r.block, r.body)
      [] OTHER -> get_block_reservation(st, r.caller, r.space, r.block, r.body)

\* The reservations a response holds.
BlocksShown(blocks) == UNION {SeqSet(blocks[b].resv) : b \in DOMAIN blocks}

Shown(r) ==
    CASE r.op = "get_spaces" -> UNION {BlocksShown(r.out[i].blocks) : i \in DOMAIN r.out}
      [] r.op = "get_space" -> BlocksShown(r.out.blocks)
      [] r.op = "get_blocks" -> BlocksShown(r.out)
      [] r.op = "get_block" -> SeqSet(r.out.resv)
      [] r.op = "get_block_reservation" -> {r.out}
      [] OTHER -> SeqSet(r.out)

\* The store without the reservations of everyone but user.
WithoutOthers(st, user) ==
    [i \in DOMAIN st |->
        [st[i] EXCEPT !.blocks =
            [b \in DOMAIN st[i].blocks |->
                [st[i].blocks[b] EXCEPT !.resv = SelectSeq(@, LAMBDA x : x.createdBy = user)]]]]

\* The request is a single-reservation GET of an id another user holds.
NamesAnothers(st, r) ==
    /\ r.op = "get_block_reservation"
    /\ \E x \in BlocksShown(Flatten([i \in DOMAIN st |-> st[i].blocks])) :
          x.id = r.body /\ x.createdBy # r.caller.user

\* C20: a read by a caller who is no admin returns only reservations the
\* caller created, and its answer is the one the same request gets from the
\* store with the other users' reservations taken out, except that a GET of
\* a single reservation another user holds is answered 403.
C20_OwnReservationsOnly ==
    (last.op \in ReadOps /\ ~last.req.caller.admin) =>
        /\ last.code = 200 => \A x \in Shown(last) : x.createdBy = last.req.caller.user
        /\ IF NamesAnothers(store, last.req)
           THEN last.code = 403 /\ last.out = Null
           ELSE LET alone == ReadOn(WithoutOthers(store, last.req.caller.user), last.req)
                IN  last.code = alone.code /\ last.detail = alone.detail /\ last.out = alone.out

\* Alice has listed the block's reservations and got her own, while the
\* block holds an unsettled reservation of Bob.
C20_ListedOwn ==
    /\ last.op = "get_block_reservations"
    /\ last.req.caller = Alice
    /\ last.code = 200
    /\ Len(last.out) = 1
    /\ \E k \in DOMAIN OnlyBlock(store).resv :
          /\ OnlyBlock(store).resv[k].createdBy = "bob"
          /\ OnlyBlock(store).resv[k].settledOn = 0

AdminOps ==
    {"create_space", "update_space", "delete_space",
     "create_block", "update_block", "delete_block",
     "create_block_net", "update_block_vnets", "delete_block_nets",
     "create_external_network", "update_ext_network", "delete_external_network",
     "create_external_subnet", "update_ext_subnet", "delete_external_subnet",
     "create_external_subnet_endpoint", "update_external_subnet_enpoints",
     "delete_external_subnet_endpoints", "update_ext_endpoint",
     "delete_external_subnet_endpoint"}

\* new is old with a reservation of user appended, or with reservations
\* that user created, unsettled in old, settled by user.
ResvChangedBy(old, new, user) ==
    \/ /\ Len(new) = Len(old) + 1
       /\ SubSeq(new, 1, Len(old)) = old
       /\ new[Len(new)].createdBy = user
       /\ new[Len(new)].settledOn = 0
    \/ /\ Len(new) = Len(old)
       /\ \A k \in DOMAIN old :
             \/ new[k] = old[k]
             \/ /\ old[k].createdBy = user
                /\ old[k].settledOn = 0
                /\ new[k].settledOn # 0
                /\ new[k] = Settle(old[k], user, new[k].settledOn)

\* The documents differ in reservation lists only, and there as user may.
OnlyOwnResv(st, new, user) ==
    /\ DOMAIN new = DOMAIN st
    /\ \A i \in DOMAIN st :
          /\ DOMAIN new[i].blocks = DOMAIN st[i].blocks
          /\ [new[i] EXCEPT !.blocks = st[i].blocks] = st[i]
          /\ \A b \in DOMAIN st[i].blocks :
                /\ [new[i].blocks[b] EXCEPT !.resv = st[i].blocks[b].resv] = st[i].blocks[b]
                /\ ResvChangedBy(st[i].blocks[b].resv, new[i].blocks[b].resv, user)

\* C21: a write operation other than reservation create and reservation
\* delete, called by a caller who is no admin, answers 403 and leaves every
\* Space document as it was; whatever such a caller changes is a reservation
\* of theirs appended or reservations they created settled.
C21_AdminGate ==
    [][~last'.req.caller.admin =>
          /\ last'.op \in AdminOps => (last'.code = 403 /\ store' = store)
          /\ OnlyOwnResv(store, store', last'.req.caller.user)]_vars

\* Alice, who holds a reservation, was refused the deletion of the space
\* with force, and the space is still there.
C21_DeleteRefused ==
    /\ last.op = "delete_space"
    /\ last.req.caller = Alice
    /\ last.req.body.force
    /\ last.code = 403
    /\ SpaceQuery(store, "corp") # <<>>
    /\ \E k \in DOMAIN OnlyBlock(store).resv : OnlyBlock(store).resv[k].createdBy = "alice"

PatchKinds ==
    {"update_space", "update_block", "update_ext_network", "update_ext_subnet",
     "update_ext_endpoint"}

\* The allow-listed paths of each PATCH.
AllowList(op) ==
    CASE op = "update_space" -> {"/name", "/desc"}
      [] op = "update_block" -> {"/name", "/cidr"}
      [] op = "update_ext_endpoint" -> {"/name", "/desc", "/ip"}
      [] OTHER -> {"/name", "/desc", "/cidr"}

PathField(path) ==
    CASE path = "/name" -> "name" [] path = "/desc" -> "desc"
      [] path = "/cidr" -> "cidr" [] path = "/ip" -> "ip"

PatchOf(req) == IF req.op \in {"update_space", "update_block"} THEN req.body ELSE req.body.patch

\* The fields the allow-listed entries of a request's patch name.
NamedFields(req) ==
    {PathField(PatchOf(req)[i].path) :
        i \in {j \in DOMAIN PatchOf(req) :
                  /\ PatchOf(req)[j].op = "replace"
                  /\ PatchOf(req)[j].path \in AllowList(req.op)}}

\* The entity a PATCH is for, in a space that holds one of each kind.
PatchTarget(st, op) ==
    CASE op = "update_space" -> st[1]
      [] op = "update_block" -> st[1].blocks[1]
      [] op = "update_ext_network" -> st[1].blocks[1].externals[1]
      [] op = "update_ext_subnet" -> st[1].blocks[1].externals[1].subnets[1]
      [] OTHER -> st[1].blocks[1].externals[1].subnets[1].endpoints[1]

\* The documents with that entity replaced by ent.
WithTarget(st, op, ent) ==
    CASE op = "update_space" -> [st EXCEPT ![1] = ent]
      [] op = "update_block" -> [st EXCEPT ![1].blocks[1] = ent]
      [] op = "update_ext_network" -> [st EXCEPT ![1].blocks[1].externals[1] = ent]
      [] op = "update_ext_subnet" -> [st EXCEPT ![1].blocks[1].externals[1].subnets[1] = ent]
      [] OTHER -> [st EXCEPT ![1].blocks[1].externals[1].subnets[1].endpoints[1] = ent]

\* C22: a PATCH changes only the fields of its entity that allow-listed
\* (op, path) entries of the patch name; entries with another op or path
\* change nothing, and the entity's other fields and everything else in the
\* document stay as they were.
C22_OnlyAllowListed ==
    [][last'.op \in PatchKinds =>
          LET old == PatchTarget(store, last'.op)
              new == PatchTarget(store', last'.op)
          IN  /\ WithTarget(store', last'.op, old) = store
              /\ DOMAIN new = DOMAIN old
              /\ \A f \in DOMAIN old \ NamedFields(last'.req) : new[f] = old[f]]_vars

\* A patch of a refused entry and a rename was applied to the block: the
\* block has the new name and still has its vnets.
C22_RenamedOnly ==
    /\ last.op = "update_block"
    /\ last.code = 200
    /\ last.req.body = <<ReplaceItem("/vnets", <<>>), ReplaceItem("/name", "BLK1")>>
    /\ store[1].blocks[1].name = "BLK1"
    /\ store[1].blocks[1].vnets # <<>>

ResizeOps == {"update_block", "update_ext_network", "update_ext_subnet"}

\* The values of the allow-listed replace /cidr entries of a request's patch.
CidrValues(req) ==
    {PatchOf(req)[i].value :
        i \in {j \in DOMAIN PatchOf(req) :
                  PatchOf(req)[j].op = "replace" /\ PatchOf(req)[j].path = "/cidr"}}

\* The address sets of the children of the container a PATCH is for.
Kids(st, op) ==
    LET block == st[1].blocks[1]
    IN  CASE op = "update_block" -> {Range(Children(block)[i]) : i \in DOMAIN Children(block)}
          [] op = "update_ext_network" ->
                {Range(block.externals[1].subnets[i].cidr) :
                    i \in DOMAIN block.externals[1].subnets}
          [] OTHER ->
                {{block.externals[1].subnets[1].endpoints[i].ip} :
                    i \in DOMAIN block.externals[1].subnets[1].endpoints}

\* C23: a replace /cidr on a block, an external network or a subnet whose
\* new CIDR does not cover a child of that container is refused with 400
\* and the document is unchanged, in whatever letter case the path names
\* the container.
C23_ResizeCoversChildren ==
    [][(/\ last'.op \in ResizeOps
        /\ \E v \in CidrValues(last'.req) :
              \E kid \in Kids(store, last'.op) : ~(kid \subseteq Range(v))) =>
           (last'.code = 400 /\ store' = store)]_vars

Held(block, vnet_id) ==
    IPSet(CidrsOf(Unsettled(block.resv)))
    \cup IPSet(CidrsOf(block.externals))
    \cup IPSet(Flatten([i \in DOMAIN block.vnets |->
                          IF block.vnets[i].id = vnet_id THEN <<>>
                          ELSE PrefixesIn(block.vnets[i].id, block.cidr)]))

\* C25: attaching a vnet to a block succeeds only if every prefix of the vnet
\* that lies in the block is disjoint from the in-block prefixes of the vnets
\* attached already, from the externals and from the unsettled reservations,
\* a vnet with more than one prefix in the block included.
C25_AttachDisjoint ==
    [][(last'.op = "create_block_net" /\ last'.code = 201) =>
          IPSet(PrefixesIn(last'.req.body, TargetBlock(store, last'.req).cidr))
             \cap Held(TargetBlock(store, last'.req), last'.req.body) = {}]_vars

(***************************************************************************)
(* SpecReplace: the vnet list of one block replaced while the block holds  *)
(* reservations and an external network.                                   *)
(***************************************************************************)
NextReplace ==
    \/ CreateSpace({Admin}, {"corp"})
    \/ CreateBlock({Admin}, {"corp"}, {"blk1"}, {Whole})
    \/ UpdateBlockVnets({Admin, Alice}, {"corp"}, {"blk1"},
                        {<<>>, <<"vneta">>, <<"vnetb">>, <<"vnetc", "vneta">>,
                         <<"vneta", "vnetb">>, <<"vnetz">>, <<"vnetc", "vnetc">>})
    \/ CreateBlockReservation({Alice}, {"corp"}, {"blk1"}, {BySize(2, FALSE, FALSE)})
    \/ DeleteBlockReservation({Alice}, {"corp"}, {"blk1"}, {1, 2})
    \/ CreateExternalNetwork({Admin}, {"corp"}, {"blk1"}, {ExtReq("ext1", NoneCidr, 2)})
    \/ DeleteExternalNetwork({Admin}, {"corp"}, {"blk1"}, {"ext1"})

SpecReplace == Init /\ [][NextReplace]_vars

\* What the replacement asks of the supplied list in that block.
ListOk(block, ids) ==
    /\ \A i \in DOMAIN ids : FindNet(ids[i]) # 0
    /\ \A i \in DOMAIN ids : Len(PrefixesIn(ids[i], block.cidr)) = 1
    /\ \A i, j \in DOMAIN ids :
          i # j => IPSet(PrefixesIn(ids[i], block.cidr))
                      \cap IPSet(PrefixesIn(ids[j], block.cidr)) = {}
    /\ \A i \in DOMAIN ids :
          IPSet(PrefixesIn(ids[i], block.cidr))
             \cap (IPSet(CidrsOf(Unsettled(block.resv)))
                   \cup IPSet(CidrsOf(block.externals))) = {}

\* C26: replacing the vnet list of a block succeeds only if every supplied id
\* is in the inventory, each supplied vnet has exactly one prefix in the
\* block, and these prefixes overlap neither each other nor an unsettled
\* reservation nor an external of the block; on success the list is the
\* supplied ids, each active, and on failure the documents are unchanged.
C26_ReplaceVnets ==
    [][last'.op = "update_block_vnets" =>
          IF last'.code = 200
          THEN /\ ListOk(TargetBlock(store, last'.req), last'.req.body)
               /\ TargetBlock(store', last'.req).vnets =
                     [i \in DOMAIN last'.req.body |->
                         [id |-> last'.req.body[i], active |-> TRUE]]
          ELSE store' = store]_vars

(***************************************************************************)
(* SpecAvail: the vnets a block may still take, asked for while vnets are  *)
(* attached to the blocks of two spaces.                                   *)
(***************************************************************************)
NextAvail ==
    \/ CreateSpace({Admin}, {"corp", "dev"})
    \/ CreateBlock({Admin}, {"corp"}, {"blk1"}, {HighHalf})
    \/ CreateBlock({Admin}, {"corp", "dev"}, {"blk2"}, {LowHalf, HighHalf})
    \/ CreateBlockNet({Admin}, {"corp", "dev"}, {"blk1", "blk2"}, {"vnetb", "vnetc"})
    \/ DeleteBlockNets({Admin}, {"corp"}, {"blk2"}, {<<"vnetc">>})
    \/ AvailableBlockNets({Alice}, {"corp", "dev"}, {"blk1", "blk2"}, BOOLEAN)

SpecAvail == Init /\ [][NextAvail]_vars

\* The ids a GET available answered.
ListedIds(answer) ==
    IF answer.req.body.expand THEN {answer.out[i].id : i \in DOMAIN answer.out}
    ELSE SeqSet(answer.out)

\* The ids attached to a block other than the one the request names.
AttachedToOthers(st, req) ==
    {st[s].blocks[b].vnets[v].id :
        <<s, b, v>> \in {x \in (DOMAIN st) \X (1..MaxBlocks) \X (1..Len(NetList)) :
                           /\ x[2] \in DOMAIN st[x[1]].blocks
                           /\ x[3] \in DOMAIN st[x[1]].blocks[x[2]].vnets
                           /\ ~(/\ Lower(st[x[1]].name) = Lower(req.space)
                                /\ Lower(st[x[1]].blocks[x[2]].name) = Lower(req.block))}}

\* C27: GET available for a block lists no vnet that is attached to another
\* block, of the same space or of another one, wherever the vnet stands in
\* the inventory.
C27_AvailableUnattached ==
    [][(last'.op = "available_block_nets" /\ last'.code = 200) =>
          ListedIds(last') \cap AttachedToOthers(store, last'.req) = {}]_vars

(***************************************************************************)
(* SpecUtil: the spaces read with their utilization while vnets, external  *)
(* networks and reservations come and go.                                  *)
(***************************************************************************)
NextUtil ==
    \/ CreateBlockNet({Admin}, {"corp"}, {"blk1"}, {"vnetb"})
    \/ DeleteBlockNets({Admin}, {"corp"}, {"blk1"}, {<<"vneta">>, <<"vnetb">>})
    \/ CreateExternalNetwork({Admin}, {"corp"}, {"blk1"}, {ExtReq("ext2", NoneCidr, 2)})
    \/ DeleteExternalNetwork({Admin}, {"corp"}, {"blk1"}, {"ext1", "ext2"})
    \/ CreateBlockReservation({Alice}, {"corp"}, {"blk1"}, {BySize(2, FALSE, FALSE)})
    \/ GetSpaces({Alice, Admin}, {Flags(e, u) : e, u \in BOOLEAN})
    \/ GetSpace({Alice, Admin}, {"corp", "dev"}, {Flags(e, u) : e, u \in BOOLEAN})

SpecUtil == InitGate /\ [][NextUtil]_vars

\* The addresses a block has in use: the in-block prefixes of its vnets and
\* its externals.
BlockUsed(block) == SumSizes(VnetCidrs(block) \o CidrsOf(block.externals))

RECURSIVE SumOf(_)
SumOf(numbers) == IF numbers = <<>> THEN 0 ELSE Head(numbers) + SumOf(Tail(numbers))

\* The answer for one space carries the roll-up of that space.
RolledUp(view, space) ==
    /\ DOMAIN view.blocks = DOMAIN space.blocks
    /\ \A b \in DOMAIN space.blocks :
          /\ view.blocks[b].size = Size(space.blocks[b].cidr)
          /\ view.blocks[b].used = BlockUsed(space.blocks[b])
    /\ view.size = SumOf([b \in DOMAIN space.blocks |-> Size(space.blocks[b].cidr)])
    /\ view.used = SumOf([b \in DOMAIN space.blocks |-> BlockUsed(space.blocks[b])])

\* C28: with utilization=true GET /spaces and GET /spaces/{s} answer every
\* block with size = |block.cidr| and used = the sizes of its vnets' in-block
\* prefixes plus the sizes of its externals, and every space with the sums of
\* these over its blocks, a block with externals included.
C28_UtilizationRollUp ==
    [][(/\ last'.op \in {"get_spaces", "get_space"}
        /\ last'.req.body.utilization
        /\ last'.req.body.expand => last'.req.caller.admin
        /\ last'.op = "get_space" => SpaceQuery(store, last'.req.space) # <<>>) =>
          /\ last'.code = 200
          /\ IF last'.op = "get_spaces"
             THEN /\ DOMAIN last'.out = DOMAIN store
                  /\ \A i \in DOMAIN store : RolledUp(last'.out[i], store[i])
             ELSE RolledUp(last'.out, SpaceQuery(store, last'.req.space)[1])]_vars

(***************************************************************************)
(* SpecAccount: reservations made and released in a block that holds a     *)
(* vnet and an external network.                                           *)
(***************************************************************************)
Shared ==
    LET s1 == Apply(<<>>, create_space(<<>>, Admin, [name |-> "corp", desc |-> "d"], 1).write)
        s2 == Apply(s1, create_block(s1, Admin, "corp", [name |-> "blk1", cidr |-> Whole]).write)
        s3 == Apply(s2, create_block_net(s2, Admin, "corp", "blk1", "vnetc").write)
    IN  Apply(s3, create_external_network(s3, Admin, "corp", "blk1",
                                          ExtReq("ext1", Pfx(4, 3), 0)).write)

InitAccount ==
    /\ store = Shared
    /\ last = NoResponse
    /\ proc = [p \in Procs |-> Idle]
    /\ serial = Shared

NextAccount ==
    \/ CreateBlockReservation({Alice}, {"corp"}, {"blk1"},
                              {BySize(3, FALSE, FALSE), BySize(2, TRUE, FALSE),
                               BySize(3, FALSE, TRUE), ByCidr(Quarter2), ByCidr(Pfx(1, 2)),
                               ByCidr(HighHalf)})
    \/ DeleteBlockReservations({Alice}, {"corp"}, {"blk1"}, {<<1>>, <<3, 2>>})
    \/ DeleteBlockReservation({Alice}, {"corp"}, {"blk1"}, {2})

SpecAccount == InitAccount /\ [][NextAccount]_vars

NextForce ==
    \/ DeleteSpace({Admin}, {"corp"})
    \/ DeleteBlock({Admin}, {"corp"}, {"blk1"})
    \/ DeleteExternalNetwork({Admin}, {"corp"}, {"blk1"}, {"ext1"})
    \/ DeleteExternalSubnet({Admin}, {"corp"}, {"blk1"}, {"ext1"}, {"sub1"})
    \/ DeleteExternalSubnetEndpoints({Admin}, {"corp"}, {"blk1"}, {"ext1"}, {"sub1"},
                                     {<<"ep1">>})
    \/ DeleteBlockNets({Admin}, {"corp"}, {"blk1"}, {<<"vneta">>})
    \/ CreateBlockReservation({Alice}, {"corp"}, {"blk1"}, {BySize(2, FALSE, FALSE)})
    \/ DeleteBlockReservation({Alice}, {"corp"}, {"blk1"}, {1})

SpecForce == InitGate /\ [][NextForce]_vars

ParentDeletes ==
    {"delete_space", "delete_block", "delete_external_network", "delete_external_subnet"}

\* The parent a delete request names, as a sequence: <<>> when the names do
\* not resolve.
ParentOf(st, req) ==
    LET q == SpaceQuery(st, req.space)
        b == FindByName(q[1].blocks, req.block)
        e == FindByName(q[1].blocks[b].externals, req.body.external)
        v == FindByName(q[1].blocks[b].externals[e].subnets, req.body.subnet)
    IN  IF q = <<>> THEN <<>>
        ELSE IF req.op = "delete_space" THEN <<q[1]>>
        ELSE IF b = 0 THEN <<>>
        ELSE IF req.op = "delete_block" THEN <<q[1].blocks[b]>>
        ELSE IF e = 0 THEN <<>>
        ELSE IF req.op = "delete_external_network" THEN <<q[1].blocks[b].externals[e]>>
        ELSE IF v = 0 THEN <<>>
        ELSE <<q[1].blocks[b].externals[e].subnets[v]>>

\* The parent still owns a child.
OwnsChildren(op, parent) ==
    CASE op = "delete_space" -> parent.blocks # <<>>
      [] op = "delete_block" ->
            parent.vnets # <<>> \/ parent.externals # <<>> \/ parent.resv # <<>>
      [] op = "delete_external_network" -> parent.subnets # <<>>
      [] OTHER -> parent.endpoints # <<>>

\* C30: an admin's delete of a space, a block, an external network or a
\* subnet that still owns children answers 400 and leaves the documents
\* unchanged unless force is given; with force the parent is removed,
\* children and all.
C30_ForceGated ==
    [][(/\ last'.op \in ParentDeletes
        /\ last'.req.caller.admin
        /\ ParentOf(store, last'.req) # <<>>
        /\ OwnsChildren(last'.op, ParentOf(store, last'.req)[1])) =>
          IF last'.req.body.force
          THEN last'.code = 200 /\ ParentOf(store', last'.req) = <<>>
          ELSE last'.code = 400 /\ store' = store]_vars

\* The subnet an endpoint request names.
TargetSubnet(st, req) ==
    LET block == TargetBlock(st, req)
        ext == block.externals[FindByName(block.externals, req.body.external)]
    IN  ext.subnets[FindByName(ext.subnets, req.body.subnet)]

\* C31: an endpoint created without an ip gets the lowest host address of the
\* subnet that no endpoint of the subnet has, and never the ip of an existing
\* endpoint, also when one of them holds the network or broadcast address.
C31_LowestFreeHost ==
    [][(/\ last'.op = "create_external_subnet_endpoint"
        /\ last'.code = 201
        /\ last'.req.body.req.ip = -1) =>
          LET before == TargetSubnet(store, last'.req)
              after == TargetSubnet(store', last'.req)
              free == iter_hosts(before.cidr) \ EndpointIps(before.endpoints)
              ip == after.endpoints[Len(after.endpoints)].ip
          IN  /\ ip \notin EndpointIps(before.endpoints)
              /\ ip \in free
              /\ \A x \in free : ip <= x]_vars

(***************************************************************************)
(* SpecPartial: two requests at a time on a space that holds one of        *)
(* everything, most of them refused after the handler has changed its copy *)
(* of the document, some cancelled, some losing every store call.          *)
(***************************************************************************)
PartialRequests ==
    {Request("delete_block_nets", Admin, "corp", "blk1", <<"vneta", "vnetz">>),
     Request("delete_external_subnet_endpoints", Admin, "corp", "blk1",
             [external |-> "ext1", subnet |-> "sub1", req |-> <<"ep1", "epz">>]),
     Request("update_block", Admin, "corp", "blk1",
             <<ReplaceItem("/name", "blk2"), ReplaceItem("/cidr", LowHalf)>>),
     Request("update_block", Alice, "corp", "blk1", <<ReplaceItem("/name", "blk2")>>),
     Request("create_block_reservation", Alice, "corp", "blk1", BySize(2, FALSE, FALSE)),
     Request("delete_block_reservations", Alice, "corp", "blk1", <<>>)}

NextPartial ==
    \E p \in Procs :
        \/ Start(p, PartialRequests)
        \/ Query(p)
        \/ Requery(p)
        \/ Answer(p)
        \/ Write(p)
        \/ Conflict(p)
        \/ Exhaust(p)
        \/ Cancel(p)

SpecPartial == InitGate /\ [][NextPartial]_vars

\* C32: a write request that ends in an error, or is cancelled before its
\* store call, leaves the documents as they were, whatever the handler had
\* done to its own copy before.
C32_NoPartialCommit ==
    [][(\E p \in Procs :
           /\ proc[p].pc \in {"query", "write"}
           /\ proc'[p].pc = "done"
           /\ proc'[p].code >= 400) => store' = store]_vars

\* The endpoint list was refused for its second name after the first one had
\* been deleted from the handler's copy.
C32_RefusedHalfway ==
    /\ last.op = "delete_external_subnet_endpoints"
    /\ last.code = 400
    /\ last.req.body.req = <<"ep1", "epz">>
    /\ \E p \in Procs : proc[p].pc = "done" /\ proc[p].req = last.req /\ proc[p].code = 400
    /\ Len(TargetSubnet(store, last.req).endpoints) = 1

\* The operations that grant a range of a block.
GrantOps == {"create_block_reservation", "create_external_network", "create_block_net"}

\* The addresses a granting step has added to the block the request names.
Granted(old, new, req) ==
    CASE req.op = "create_block_reservation" -> Range(new.resv[Len(new.resv)].cidr)
      [] req.op = "create_external_network" -> Range(new.externals[Len(new.externals)].cidr)
      [] OTHER -> IPSet(PrefixesIn(req.body, old.cidr))

\* C33: a settled reservation holds no addresses: its range may be granted
\* again to a reservation, an external network or a vnet, while the range of
\* an unsettled reservation is granted to none of them.
C33_UnsettledHeld ==
    [][(last'.op \in GrantOps /\ last'.code = 201) =>
          Granted(TargetBlock(store, last'.req), TargetBlock(store', last'.req), last'.req)
             \cap IPSet(CidrsOf(Unsettled(TargetBlock(store, last'.req).resv))) = {}]_vars

\* The ids of the reservation records the documents hold.
ResvIds(st) ==
    UNION {UNION {{st[s].blocks[b].resv[i].id : i \in DOMAIN st[s].blocks[b].resv} :
                     b \in DOMAIN st[s].blocks} : s \in DOMAIN st}

\* C34: no step removes a reservation record from the documents: every
\* record there before the step is there after it, settled or not, forced
\* block and space deletion included.
C34_ResvNeverRemoved == [][ResvIds(store) \subseteq ResvIds(store')]_vars

(***************************************************************************)
(* SpecCase: a block and its external network read, patched and deleted    *)
(* under their stored names and under the same names in upper case.        *)
(***************************************************************************)
NextCase ==
    \/ GetBlock({Admin}, {"corp"}, {"blk1", "BLK1"}, {Flags(FALSE, FALSE)})
    \/ UpdateBlock({Admin}, {"corp"}, {"blk1", "BLK1"},
                   {<<ReplaceItem("/cidr", HighHalf)>>, <<ReplaceItem("/cidr", Whole)>>})
    \/ DeleteBlock({Admin}, {"corp"}, {"blk1", "BLK1"})
    \/ DeleteExternalNetwork({Admin}, {"corp"}, {"blk1"}, {"ext1", "EXT1"})
    \/ CreateBlockReservation({Alice}, {"corp"}, {"blk1"}, {BySize(2, FALSE, FALSE)})
    \/ DeleteBlockReservation({Alice}, {"corp"}, {"blk1"}, {1})

SpecCase == InitResize /\ [][NextCase]_vars

CaseOps == {"get_block", "update_block", "delete_block", "delete_external_network"}

\* The external network of the named block that the request names, <<>> if none.
NamedExternal(st, req) ==
    LET externals == TargetBlock(st, req).externals
    IN  IF FindByName(externals, req.body.external) = 0 THEN <<>>
        ELSE <<externals[FindByName(externals, req.body.external)]>>

\* The request names a stored entity, in whatever letter case.
Resolves(st, req) ==
    /\ HasTarget(st, req)
    /\ req.op = "delete_external_network" => NamedExternal(st, req) # <<>>

\* What the handler answers to the same request with the names as stored.
AsStored(st, req) ==
    LET name == TargetBlock(st, req).name
    IN  CASE req.op = "get_block" ->
               get_block(st, req.caller, req.space, name, req.body.expand, req.body.utilization)
          [] req.op = "update_block" -> update_block(st, st, req.caller, req.space, name, req.body)
          [] req.op = "delete_block" -> delete_block(st, req.caller, req.space, name, req.body.force)
          [] OTHER -> delete_external_network(st, req.caller, req.space, name,
                                              NamedExternal(st, req)[1].name, req.body.force)

\* C35: a get, patch or delete whose path names a stored block or external
\* network in another letter case resolves to that entity and ends as the
\* request with the stored name does: same status, same documents.
C35_CaseInsensitive ==
    [][(last'.op \in CaseOps /\ Resolves(store, last'.req)) =>
          /\ last'.code = AsStored(store, last'.req).code
          /\ store' = Apply(store, AsStored(store, last'.req).write)]_vars

(***************************************************************************)
(* SpecPoison: a block that holds a vnet with one prefix inside the block  *)
(* and one outside of it.                                                  *)
(***************************************************************************)
Straddled ==
    LET s1 == Apply(<<>>, create_space(<<>>, Admin, [name |-> "corp", desc |-> "d"], 1).write)
        s2 == Apply(s1, create_block(s1, Admin, "corp", [name |-> "blk1", cidr |-> LowHalf]).write)
    IN  Apply(s2, create_block_net(s2, Admin, "corp", "blk1", "vnetb").write)

InitPoison ==
    /\ store = Straddled
    /\ last = NoResponse
    /\ proc = [p \in Procs |-> Idle]
    /\ serial = Straddled

NextPoison ==
    \/ UpdateBlock({Admin}, {"corp"}, {"blk1"},
                   {<<ReplaceItem("/cidr", x)>> : x \in {Quarter2, LowHalf, HighHalf, Whole}})
    \/ CreateBlockNet({Admin}, {"corp"}, {"blk1"}, {"vneta"})
    \/ DeleteBlockNets({Admin}, {"corp"}, {"blk1"}, {<<"vneta">>})
    \/ CreateBlockReservation({Alice}, {"corp"}, {"blk1"},
                              {BySize(3, FALSE, FALSE), BySize(2, TRUE, FALSE)})
    \/ DeleteBlockReservation({Alice}, {"corp"}, {"blk1"}, {1})
    \/ CreateExternalNetwork({Admin}, {"corp"}, {"blk1"}, {ExtReq("ext1", NoneCidr, 3)})
    \/ UpdateExtNetwork({Admin}, {"corp"}, {"blk1"}, {"ext1"},
                        {<<ReplaceItem("/cidr", x)>> : x \in {Pfx(1, 3), LowQuarter}})

SpecPoison == InitPoison /\ [][NextPoison]_vars

\* What the block /cidr patch answers when the inventory holds, for the
\* block's vnets, only the prefixes that lie inside the block.
InBlockCidrOk(st, cidr, req) ==
    LET block == TargetBlock(st, req)
        others == SelectSeq(SpaceQuery(st, req.space)[1].blocks, LAMBDA b : b.name # block.name)
    IN  IF cidr = block.cidr THEN TRUE
        ELSE /\ Parses(cidr)
             /\ IsCanonical(cidr)
             /\ IPSet(CidrsOf(others)) \cap Range(cidr) = {}
             /\ IPSet(Children(block)) \subseteq Range(cidr)

\* C36: a prefix of an attached vnet that does not lie inside block.cidr has
\* no influence on an operation on the block: the block /cidr patch ends as
\* it does with that prefix taken out of the inventory.
C36_ExtraneousIgnored ==
    [][(/\ last'.op = "update_block"
        /\ last'.req.caller.admin
        /\ HasTarget(store, last'.req)
        /\ TargetBlock(store, last'.req).name = last'.req.block
        /\ Len(last'.req.body) = 1
        /\ last'.req.body[1].op = "replace"
        /\ last'.req.body[1].path = "/cidr") =>
          ((last'.code = 200) <=> InBlockCidrOk(store, last'.req.body[1].value, last'.req))]_vars

\* The documents of that id, as a set.
DocsOf(st, id) == {st[i] : i \in {j \in DOMAIN st : st[j].id = id}}

\* The step is the store call of p's patch, and the store takes it.
PatchCommits(p) ==
    /\ proc[p].pc = "write"
    /\ proc[p].req.op \in PatchOps
    /\ proc'[p].pc = "done"
    /\ proc'[p].code = 200

C38_DeleteLosesNoBlock ==
    [][\A p \in Procs :
          (/\ proc[p].pc = "write"
           /\ proc[p].req.op = "delete_space"
           /\ proc[p].req.body = FALSE
           /\ proc'[p].pc = "done"
           /\ proc'[p].code = 200) =>
             \A doc \in DocsOf(store, WrittenId(Result(p).write)) : doc.blocks = <<>>]_vars

\* The prefixes of that length, aligned to their size, that lie in the block
\* and hold no address of a vnet, an external or an unsettled reservation.
AlignedFree(block, size) ==
    {c \in {[ip |-> a, len |-> size] : a \in 0 .. (2^AddrBits - 1)} :
        /\ IsCanonical(c)
        /\ Range(c) \subseteq Range(block.cidr) \ IPSet(Children(block))}

\* C39: with smallest_cidr false a by-size reservation gets an aligned prefix
\* of the requested length that is entirely free, the lowest-addressed one
\* of the block, or with reverse_search the highest-addressed one.
C39_PlacementExtremum ==
    [][(BySizeStep(FALSE) /\ last'.code = 201) =>
          LET free == AlignedFree(OnlyBlock(store), last'.req.body.size)
              got == last'.out.resv.cidr
          IN  /\ got \in free
              /\ \A d \in free :
                    IF last'.req.body.reverse_search THEN First(d) <= First(got)
                    ELSE First(got) <= First(d)]_vars

\* A reservation placed behind a smaller one: the lowest free prefix of its
\* length does not start where the free space starts.
C39_PlacedBehind ==
    /\ last.op = "create_block_reservation"
    /\ last.code = 201
    /\ last.req.body.cidr = NoneCidr
    /\ ~last.req.body.smallest_cidr
    /\ ~last.req.body.reverse_search
    /\ last.req.body.size = 2
    /\ Len(OnlyBlock(store).resv) = 2
    /\ OnlyBlock(store).resv[1].cidr = Pfx(0, 3)
    /\ OnlyBlock(store).resv[1].settledOn = 0
    /\ last.out.resv.cidr = Quarter2

(***************************************************************************)
(* SpecLive: the requests of SpecRetry, each of them scheduled fairly: a   *)
(* query the store has received is answered in the end, and so is a store  *)
(* call. StoreCall(p) can happen exactly while p waits for its store call  *)
(* (CallPending), so its weak fairness is written with that condition in   *)
(* the place of ENABLED <<StoreCall(p)>>_vars.                             *)
(***************************************************************************)
StoreCall(p) == Answer(p) \/ Write(p) \/ Conflict(p) \/ Exhaust(p)

\* The handler of p has run on its snapshot and one of the four outcomes of
\* StoreCall(p) is open to it.
CallPending ==
    \A p \in Procs :
        proc[p].pc = "write" =>
            \/ Result(p).write.kind = "none"
            \/ Result(p).write.kind = "replace" /\ Present(store, WrittenId(Result(p).write))

Fair(p) ==
    /\ WF_vars(Query(p))
    /\ ([]<>(proc[p].pc # "write") \/ []<><<StoreCall(p)>>_vars)

SpecLive == InitRetry /\ [][NextRetry]_vars /\ \A p \in Procs : Fair(p)

\* C40: every write request completes in the end, with a success, an error
\* or the exhaustion of its attempts, however often the other requests
\* commit to the space; none retries forever.
C40_Terminates ==
    \A p \in Procs : (proc[p].pc \in {"query", "write"}) ~> (proc[p].pc = "done")

\* A request has succeeded on its last attempt, after losing four store calls
\* to the other request.
C40_WonLastAttempt ==
    \E p \in Procs :
        /\ proc[p].pc = "done"
        /\ proc[p].conflicts = max_retry - 1
        /\ proc[p].tries = max_retry
        /\ proc[p].code \in {200, 201, 204}

====
